---- MODULE Spec2Model ----
(***************************************************************************)
(* Relay Session Hub of phosphor: the Session (viewer set, producer slot,  *)
(* reconnect token), the Hub registry with its grace-period reaper, and    *)
(* the producer / viewer WebSocket handlers.                               *)
(*                                                                         *)
(* Every goroutine is a process; one action is one lock-protected critical *)
(* section of the code together with the lock-free code around it that     *)
(* touches only goroutine-local data or the goroutine's own connection.    *)
(***************************************************************************)
EXTENDS Integers, Sequences, FiniteSets, TLC

(* ------------------------------ bounds --------------------------------- *)
\* producer connections accepted by /ws/cli during a run
NumProducers == 3
\* viewer connections accepted by /ws/view/{id} during a run
NumViewers == 2
\* viewer ids handed to Session.AddViewer by the session-level harness
MaxViewerIDs == 11
\* connections of both kinds accepted during a run
MaxConns == 3
\* Stdout and Resize frames the producer sends during a run
MaxStdout == 2
\* seconds of wall-clock time that pass in one Tick
TickStep == 60
\* goroutines that call Session.Close on the same session
NumClosers == 2
\* pending logins created during a run
NumAuth == 2

(* ------------------------- program constants --------------------------- *)
maxViewersPerSession == 10
\* the handler's grace period, 60*time.Second, in seconds
GracePeriod == 60
\* time.Time{}, the zero time
ZeroTime == -1
\* the empty string as a session id or reconnect token
Empty == 0
\* a non-empty reconnect token that generateToken never returned
BogusToken == -1

Producers == 1..NumProducers
Viewers == 1..NumViewers
ViewerIDs == 1..MaxViewerIDs
SessionIDs == 1..NumProducers
Providers == {"google", "apple"}
Subs == {"u1", "u2"}
Identities == [provider : Providers, sub : Subs]
\* verifyToken returned an error
NoIdentity == [provider |-> "", sub |-> ""]
\* the identities that open new sessions
SessionOwners == {[provider |-> "google", sub |-> "u1"]}

VARIABLES
    hub,        \* Hub.sessions: the registered session ids
    sessions,   \* the Session objects, by id (they outlive their registration)
    nextSid,    \* the next id gonanoid.New(12) returns
    nextTok,    \* the next token generateToken returns
    now,        \* time.Now(), in seconds
    pc,         \* position of each producer goroutine (handler, then reaper)
    hello,      \* the Hello frame and verified identity of each producer handler
    psid,       \* local sessionID of each producer handler
    snap,       \* viewer snapshot of the broadcast a producer goroutine is in
    deadline,   \* when the reaper's time.Sleep(gracePeriod) returns
    plog,       \* frames written to each producer connection while open
    popen,      \* producer connection is open
    stdoutSent, \* Stdout frames broadcast so far
    vpc,        \* position of each viewer handler
    vsid,       \* session the viewer handler holds
    vcnt,       \* count read by NotifyViewerCount
    vlog,       \* frames written to each viewer connection while open
    vopen,      \* viewer connection is open
    ret,        \* return value of the harness's last call
    bframe,     \* frame each producer goroutine's BroadcastToViewers is writing
    cpc,        \* position of each goroutine that calls Session.Close
    crem,       \* viewers the running Close has not reached yet
    cur,        \* viewer the running Close wrote End to and has not closed yet
    auth,       \* AuthSessionStore.sessions, by id
    handed,     \* by id: the id token Complete stored, and the Consume calls that returned it
    mode,       \* Session.Mode, by session id
    vsend,      \* connection and frame of the SendToCLI each viewer handler is in
    cin,        \* msgType and payload handed to protocol.Encode
    cmsg,       \* the message: what Encode returned, or bytes read off the wire
    cout,       \* what protocol.Decode returned for the message
    lop,        \* the Hub or Session operation each goroutine is executing
    lpos,       \* the step of that operation the goroutine executes next
    mu,         \* Hub.mu and Session.mu: the writer and the readers holding each
    fmsg,       \* the message SendToCLI encoded and wrote to the producer
    fout,       \* what the producer's Decode returned for that message
    cli,        \* App.Run's loop: its state, stored session id and token, backoff index
    net         \* whether the CLI can reach the relay, and the connection losses so far

vars == <<hub, sessions, nextSid, nextTok, now, pc, hello, psid, snap, deadline,
          plog, popen, stdoutSent, vpc, vsid, vcnt, vlog, vopen, ret,
          bframe, cpc, crem, cur, auth, handed, mode, vsend, cin, cmsg, cout, lop, lpos, mu, fmsg, fout, cli, net>>

hubVars == <<hub, sessions, nextSid, nextTok>>
prodVars == <<pc, hello, psid, snap, deadline, plog, popen, stdoutSent>>
viewVars == <<vpc, vsid, vcnt, vlog, vopen>>
streamVars == <<bframe, cpc, crem, cur>>
authVars == <<auth, handed>>
inputVars == <<mode, vsend>>
codecVars == <<cin, cmsg, cout>>
lockVars == <<lop, lpos, mu>>
fwdVars == <<fmsg, fout>>
cliVars == <<cli, net>>

(* ------------------------------ frames --------------------------------- *)
Frame(t, code, sid, tok, n) == [t |-> t, code |-> code, sid |-> sid, tok |-> tok, n |-> n]
ErrorFrame(code) == Frame("Error", code, 0, 0, 0)
WelcomeFrame(sid, tok) == Frame("Welcome", "", sid, tok, 0)
ReconnectFrame(status) == Frame("Reconnect", status, 0, 0, 0)
ViewerCountFrame(n) == Frame("ViewerCount", "", 0, 0, n)
JoinedFrame == Frame("Joined", "", 0, 0, 0)
StdoutFrame == Frame("Stdout", "", 0, 0, 0)
EndFrame == Frame("End", "", 0, 0, 0)

\* a write loop that ignores its list of connections and writes to every open one
WriteAllIgnoresTargets(log, open, targets, f) ==
    [v \in DOMAIN log |-> IF open[v] THEN Append(log[v], f) ELSE log[v]]

\* conn.Write on every connection of targets; a write on a closed connection fails
WriteAll(log, open, targets, f) ==
    [v \in DOMAIN log |-> IF v \in targets /\ open[v] THEN Append(log[v], f) ELSE log[v]]

Codes(log) == {log[i].code : i \in {j \in DOMAIN log : log[j].t = "Error"}}

(* ------------------------------ Session -------------------------------- *)
NoSession ==
    [ID |-> Empty, OwnerProvider |-> "", OwnerSub |-> "", ReconnectToken |-> Empty,
     cliConn |-> 0, viewers |-> {}, closed |-> FALSE,
     cliDisconnected |-> FALSE, disconnectedAt |-> ZeroTime]

NewSession(id, ownerProvider, ownerSub, conn, token) ==
    [ID |-> id, OwnerProvider |-> ownerProvider, OwnerSub |-> ownerSub,
     ReconnectToken |-> token, cliConn |-> conn, viewers |-> {}, closed |-> FALSE,
     cliDisconnected |-> FALSE, disconnectedAt |-> ZeroTime]

\* MarkDisconnected that records the time and forgets the flag
MarkDisconnectedNoFlag(s, t) == [s EXCEPT !.disconnectedAt = t]

MarkDisconnected(s, t) == [s EXCEPT !.cliDisconnected = TRUE, !.disconnectedAt = t]

\* ReplaceCLI that also starts from an empty viewer map
ReplaceCLIDropsViewers(s, conn) ==
    [s EXCEPT !.cliConn = conn, !.cliDisconnected = FALSE, !.disconnectedAt = ZeroTime,
              !.viewers = {}]

ReplaceCLI(s, conn) ==
    [s EXCEPT !.cliConn = conn, !.cliDisconnected = FALSE, !.disconnectedAt = ZeroTime]

IsDisconnected(s) == s.cliDisconnected

RotateReconnectToken(s, token) == [s EXCEPT !.ReconnectToken = token]

\* AddViewer with the capacity test off by one
AddViewerAcceptsOffByOne(s) == ~(s.closed \/ Cardinality(s.viewers) > maxViewersPerSession)

AddViewerAccepts(s) == ~(s.closed \/ Cardinality(s.viewers) >= maxViewersPerSession)

AddViewer(s, id) ==
    IF AddViewerAccepts(s) THEN [s EXCEPT !.viewers = @ \cup {id}] ELSE s

\* RemoveViewer that deletes nothing
RemoveViewerKeeps(s, id) == s

RemoveViewer(s, id) == [s EXCEPT !.viewers = @ \ {id}]

ViewerCount(s) == Cardinality(s.viewers)

\* Close that sends End to nobody
CloseTargetsNone(s) == {}

\* the connections Close writes End to and closes
CloseTargets(s) == IF s.closed THEN {} ELSE s.viewers

\* Close that ends the viewers and forgets to set closed
CloseLeavesOpen(s) == [s EXCEPT !.viewers = {}]

Close(s) == IF s.closed THEN s ELSE [s EXCEPT !.closed = TRUE, !.viewers = {}]

(* -------------------------------- Hub ---------------------------------- *)
Get(h, id) == id \in h

\* Hub.Reconnect without the IsDisconnected test
ReconnectAcceptsRegistered(h, ss, id) == Get(h, id)

\* Hub.Reconnect's guard: the session is registered and IsDisconnected
ReconnectAccepts(h, ss, id) == Get(h, id) /\ IsDisconnected(ss[id])

\* ListForOwner comparing only the subject
ListForOwnerSubOnly(h, ss, provider, sub) == {s \in h : ss[s].OwnerSub = sub}

\* Hub.ListForOwner: the registered sessions whose owner pair equals the arguments
ListForOwner(h, ss, provider, sub) ==
    {s \in h : ss[s].OwnerProvider = provider /\ ss[s].OwnerSub = sub}

(* --------------------------- producer handler -------------------------- *)
\* connections accepted so far
Accepted ==
    Cardinality({c \in Producers : pc[c] # "idle"}) + Cardinality({v \in Viewers : vpc[v] # "idle"})

NoHello == [kind |-> "none", id |-> NoIdentity, SessionID |-> Empty, ReconnectToken |-> Empty]

\* first frames a producer connection can carry, with verifyToken's result
HelloFrames ==
    {[kind |-> k, id |-> NoIdentity, SessionID |-> Empty, ReconnectToken |-> Empty] :
        k \in {"bad_tag", "bad_json"}}
    \cup [kind : {"hello"}, id : Identities \cup {NoIdentity},
          SessionID : 0..(IF nextSid <= NumProducers THEN nextSid ELSE NumProducers),
          ReconnectToken : {Empty, BogusToken} \cup 1..(nextTok - 1)]

\* the branch condition with "or" for "and"
IsReconnectEither(h) == h.SessionID # Empty \/ h.ReconnectToken # Empty

\* the branch condition of the handler: reconnect path or new-session path
IsReconnect(h) == h.SessionID # Empty /\ h.ReconnectToken # Empty

\* protocol.Decode / DecodeJSON / verifyToken failures, in the handler's order
FrameError(in) ==
    IF in.kind = "bad_tag" THEN "invalid_message"
    ELSE IF in.kind = "bad_json" THEN "invalid_payload"
    ELSE IF in.id = NoIdentity THEN "auth_failed"
    ELSE ""

\* the reconnect path comparing only the subject of the owner pair
LookupErrorSubOnly(h, ss, in) ==
    IF ~Get(h, in.SessionID) THEN "session_not_found"
    ELSE IF ss[in.SessionID].OwnerSub # in.id.sub THEN "auth_failed"
    ELSE ""

\* hub.Get and the owner comparison of the reconnect path
LookupError(h, ss, in) ==
    IF ~Get(h, in.SessionID) THEN "session_not_found"
    ELSE IF ss[in.SessionID].OwnerProvider # in.id.provider
            \/ ss[in.SessionID].OwnerSub # in.id.sub THEN "auth_failed"
    ELSE ""

\* the token comparison with its result inverted
TokenMismatchInverted(s, h) == s.ReconnectToken = h.ReconnectToken

\* subtle.ConstantTimeCompare(existing.ReconnectToken, hello.ReconnectToken) != 1
TokenMismatch(s, h) == s.ReconnectToken # h.ReconnectToken

\* sendError that leaves the connection open
RejectLeavesOpen(c, code) ==
    /\ plog' = [plog EXCEPT ![c] = Append(@, ErrorFrame(code))]
    /\ popen' = [popen EXCEPT ![c] = TRUE]
    /\ pc' = [pc EXCEPT ![c] = "rejected"]
    /\ hello' = [hello EXCEPT ![c] = NoHello]
    /\ psid' = [psid EXCEPT ![c] = Empty]

\* sendError: one Error frame, then the connection is closed and the handler returns
Reject(c, code) ==
    /\ plog' = [plog EXCEPT ![c] = Append(@, ErrorFrame(code))]
    /\ popen' = [popen EXCEPT ![c] = FALSE]
    /\ pc' = [pc EXCEPT ![c] = "rejected"]
    /\ hello' = [hello EXCEPT ![c] = NoHello]
    /\ psid' = [psid EXCEPT ![c] = Empty]

\* Accept, read the first frame, verify the token, dispatch (part_017 15-68, 89-102)
CLIHello(c, in) ==
    /\ pc[c] = "idle"
    /\ IF c = 1 THEN TRUE ELSE pc[c - 1] # "idle"
    /\ Accepted < MaxConns
    /\ in \in HelloFrames
    /\ IF FrameError(in) # ""
       THEN /\ Reject(c, FrameError(in))
            /\ UNCHANGED hubVars
       ELSE IF IsReconnect(in)
       THEN IF LookupError(hub, sessions, in) # ""
            THEN /\ Reject(c, LookupError(hub, sessions, in))
                 /\ UNCHANGED hubVars
            ELSE /\ pc' = [pc EXCEPT ![c] = "tokchk"]
                 /\ hello' = [hello EXCEPT ![c] = in]
                 /\ psid' = [psid EXCEPT ![c] = in.SessionID]
                 /\ popen' = [popen EXCEPT ![c] = TRUE]
                 /\ UNCHANGED <<hubVars, plog>>
       ELSE /\ in.id \in SessionOwners
            /\ nextSid <= NumProducers
            /\ nextTok <= NumProducers
            /\ sessions' = [sessions EXCEPT ![nextSid] =
                    NewSession(nextSid, in.id.provider, in.id.sub, c, nextTok)]
            /\ hub' = hub \cup {nextSid}
            /\ nextSid' = nextSid + 1
            /\ nextTok' = nextTok + 1
            /\ psid' = [psid EXCEPT ![c] = nextSid]
            /\ plog' = [plog EXCEPT ![c] = Append(@, WelcomeFrame(nextSid, nextTok))]
            /\ popen' = [popen EXCEPT ![c] = TRUE]
            /\ pc' = [pc EXCEPT ![c] = "loop"]
            /\ UNCHANGED hello
    /\ UNCHANGED <<now, snap, deadline, stdoutSent, viewVars, ret, streamVars, authVars, inputVars, codecVars, lockVars, fwdVars, cliVars>>

\* the reconnect token comparison (part_017 69-72)
CLITokenCheck(c) ==
    /\ pc[c] = "tokchk"
    /\ IF TokenMismatch(sessions[psid[c]], hello[c])
       THEN Reject(c, "invalid_token")
       ELSE /\ pc' = [pc EXCEPT ![c] = "reconnect"]
            /\ hello' = [hello EXCEPT ![c] = NoHello]
            /\ UNCHANGED <<plog, popen, psid>>
    /\ UNCHANGED <<hubVars, now, snap, deadline, stdoutSent, viewVars, ret, streamVars, authVars, inputVars, codecVars, lockVars, fwdVars, cliVars>>

\* Hub.Reconnect up to its guard (hub.go 92-98, part_017 73-76)
CLIHubReconnect(c) ==
    /\ pc[c] = "reconnect"
    /\ IF ReconnectAccepts(hub, sessions, psid[c])
       THEN /\ pc' = [pc EXCEPT ![c] = "replace"]
            /\ UNCHANGED <<plog, popen, hello, psid>>
       ELSE Reject(c, "reconnect_failed")
    /\ UNCHANGED <<hubVars, now, snap, deadline, stdoutSent, viewVars, ret, streamVars, authVars, inputVars, codecVars, lockVars, fwdVars, cliVars>>

\* ReplaceCLI's critical section and the snapshot of its broadcast (part_020 76-83, 133-138)
CLIReplace(c) ==
    /\ pc[c] = "replace"
    /\ sessions' = [sessions EXCEPT ![psid[c]] = ReplaceCLI(@, c)]
    /\ snap' = [snap EXCEPT ![c] = sessions'[psid[c]].viewers]
    /\ pc' = [pc EXCEPT ![c] = "rbcast"]
    /\ UNCHANGED <<hub, nextSid, nextTok, now, hello, psid, deadline, plog, popen,
                   stdoutSent, viewVars, ret, streamVars, authVars, inputVars, codecVars, lockVars, fwdVars, cliVars>>

\* the writes of Reconnect{reconnected}, then RotateReconnectToken (part_020 140-144, part_017 78)
CLIRotate(c) ==
    /\ pc[c] = "rbcast"
    /\ nextTok <= NumProducers
    /\ vlog' = WriteAll(vlog, vopen, snap[c], ReconnectFrame("reconnected"))
    /\ snap' = [snap EXCEPT ![c] = {}]
    /\ sessions' = [sessions EXCEPT ![psid[c]] = RotateReconnectToken(@, nextTok)]
    /\ nextTok' = nextTok + 1
    /\ pc' = [pc EXCEPT ![c] = "welcome"]
    /\ UNCHANGED <<hub, nextSid, now, hello, psid, deadline, plog, popen, stdoutSent,
                   vpc, vsid, vcnt, vopen, ret, streamVars, authVars, inputVars, codecVars, lockVars, fwdVars, cliVars>>

\* the Welcome of the reconnect path reads session.ReconnectToken (part_017 80-86)
CLIWelcome(c) ==
    /\ pc[c] = "welcome"
    /\ plog' = [plog EXCEPT ![c] =
            IF popen[c] THEN Append(@, WelcomeFrame(psid[c], sessions[psid[c]].ReconnectToken))
            ELSE @]
    /\ pc' = [pc EXCEPT ![c] = "loop"]
    /\ UNCHANGED <<hubVars, now, hello, psid, snap, deadline, popen, stdoutSent, viewVars, ret, streamVars, authVars, inputVars, codecVars, lockVars, fwdVars, cliVars>>

\* the read loop ends; deferred Hub.Disconnect: lookup, MarkDisconnected's critical
\* section and the snapshot of its broadcast (part_017 104-111, hub.go 71-79, part_020 66-72)
CLIDrop(c) ==
    /\ pc[c] = "loop"
    /\ popen' = [popen EXCEPT ![c] = FALSE]
    /\ IF Get(hub, psid[c])
       THEN /\ sessions' = [sessions EXCEPT ![psid[c]] = MarkDisconnected(@, now)]
            /\ snap' = [snap EXCEPT ![c] = sessions[psid[c]].viewers]
            /\ pc' = [pc EXCEPT ![c] = "dbcast"]
       ELSE /\ pc' = [pc EXCEPT ![c] = "done"]
            /\ UNCHANGED <<sessions, snap>>
    /\ psid' = [psid EXCEPT ![c] = IF Get(hub, psid[c]) THEN @ ELSE Empty]
    /\ UNCHANGED <<hub, nextSid, nextTok, now, hello, deadline, plog, stdoutSent,
                   viewVars, ret, streamVars, authVars, inputVars, codecVars, lockVars, fwdVars, cliVars>>

\* the writes of Reconnect{disconnected}; the reaper goroutine starts to sleep (hub.go 79-83)
CLIMarkWrite(c) ==
    /\ pc[c] = "dbcast"
    /\ vlog' = WriteAll(vlog, vopen, snap[c], ReconnectFrame("disconnected"))
    /\ snap' = [snap EXCEPT ![c] = {}]
    /\ deadline' = [deadline EXCEPT ![c] = now + GracePeriod]
    /\ pc' = [pc EXCEPT ![c] = "sleep"]
    /\ UNCHANGED <<hubVars, now, hello, psid, plog, popen, stdoutSent,
                   vpc, vsid, vcnt, vopen, ret, streamVars, authVars, inputVars, codecVars, lockVars, fwdVars, cliVars>>

(* ------------------------------- reaper -------------------------------- *)
\* the reaper with its test of IsDisconnected inverted
ReaperCheckInverted(c) ==
    /\ pc[c] = "sleep"
    /\ now >= deadline[c]
    /\ pc' = [pc EXCEPT ![c] = IF ~IsDisconnected(sessions[psid[c]]) THEN "unreg" ELSE "done"]
    /\ psid' = [psid EXCEPT ![c] = IF ~IsDisconnected(sessions[psid[c]]) THEN @ ELSE Empty]
    /\ deadline' = [deadline EXCEPT ![c] = 0]
    /\ UNCHANGED <<hubVars, now, hello, snap, plog, popen, stdoutSent, viewVars, ret, streamVars, authVars, inputVars, codecVars, lockVars, fwdVars, cliVars>>

\* time.Sleep returned; the reaper's IsDisconnected check (hub.go 83-84)
ReaperCheck(c) ==
    /\ pc[c] = "sleep"
    /\ now >= deadline[c]
    /\ pc' = [pc EXCEPT ![c] = IF IsDisconnected(sessions[psid[c]]) THEN "unreg" ELSE "done"]
    /\ psid' = [psid EXCEPT ![c] = IF IsDisconnected(sessions[psid[c]]) THEN @ ELSE Empty]
    /\ deadline' = [deadline EXCEPT ![c] = 0]
    /\ UNCHANGED <<hubVars, now, hello, snap, plog, popen, stdoutSent, viewVars, ret, streamVars, authVars, inputVars, codecVars, lockVars, fwdVars, cliVars>>

\* Hub.Unregister that calls Close without testing whether it found the session
ReaperUnregisterAlwaysCloses(c) ==
    /\ pc[c] = "unreg"
    /\ hub' = hub \ {psid[c]}
    /\ pc' = [pc EXCEPT ![c] = "close"]
    /\ UNCHANGED <<sessions, nextSid, nextTok, now, hello, psid, snap, deadline, plog, popen,
                   stdoutSent, viewVars, ret, streamVars, authVars, inputVars, codecVars, lockVars, fwdVars, cliVars>>

\* Hub.Unregister's critical section (hub.go 36-41)
ReaperUnregister(c) ==
    /\ pc[c] = "unreg"
    /\ hub' = hub \ {psid[c]}
    /\ pc' = [pc EXCEPT ![c] = IF Get(hub, psid[c]) THEN "close" ELSE "done"]
    /\ psid' = [psid EXCEPT ![c] = IF Get(hub, psid[c]) THEN @ ELSE Empty]
    /\ UNCHANGED <<sessions, nextSid, nextTok, now, hello, snap, deadline, plog, popen,
                   stdoutSent, viewVars, ret, streamVars, authVars, inputVars, codecVars, lockVars, fwdVars, cliVars>>

\* Session.Close, called by Unregister (hub.go 43-46, part_020 170-185)
ReaperClose(c) ==
    /\ pc[c] = "close"
    /\ vlog' = WriteAll(vlog, vopen, CloseTargets(sessions[psid[c]]), EndFrame)
    /\ vopen' = [v \in DOMAIN vopen |->
                    vopen[v] /\ v \notin CloseTargets(sessions[psid[c]])]
    /\ sessions' = [sessions EXCEPT ![psid[c]] = Close(@)]
    /\ pc' = [pc EXCEPT ![c] = "done"]
    /\ psid' = [psid EXCEPT ![c] = Empty]
    /\ UNCHANGED <<hub, nextSid, nextTok, now, hello, snap, deadline, plog, popen,
                   stdoutSent, vpc, vsid, vcnt, ret, streamVars, authVars, inputVars, codecVars, lockVars, fwdVars, cliVars>>

\* Hub.CloseAll at relay shutdown (hub.go 106-113)
CloseAll ==
    /\ hub # {}
    /\ LET targets == UNION {CloseTargets(sessions[s]) : s \in hub}
       IN /\ vlog' = WriteAll(vlog, vopen, targets, EndFrame)
          /\ vopen' = [v \in DOMAIN vopen |-> vopen[v] /\ v \notin targets]
    /\ sessions' = [s \in DOMAIN sessions |-> IF s \in hub THEN Close(sessions[s]) ELSE sessions[s]]
    /\ hub' = {}
    /\ UNCHANGED <<nextSid, nextTok, now, prodVars, vpc, vsid, vcnt, ret, streamVars, authVars, inputVars, codecVars, lockVars, fwdVars, cliVars>>

\* wall-clock time passes while a reaper sleeps
Tick ==
    /\ \E c \in Producers : pc[c] = "sleep" /\ now < deadline[c]
    /\ now' = now + TickStep
    /\ UNCHANGED <<hubVars, prodVars, viewVars, ret, streamVars, authVars, inputVars, codecVars, lockVars, fwdVars, cliVars>>

(* ---------------------------- viewer handler --------------------------- *)
\* first frames a viewer connection can carry, with verifyToken's result and the
\* session id of the URL path
JoinInputs ==
    {[kind |-> k, id |-> NoIdentity, SessionID |-> 1] : k \in {"bad_tag", "bad_json"}}
    \cup [kind : {"join"}, id : Identities \cup {NoIdentity},
          SessionID : 1..(IF nextSid <= NumProducers THEN nextSid ELSE NumProducers)]

\* the ownership check comparing only the subject of the owner pair
JoinErrorSubOnly(h, ss, in) ==
    IF ~Get(h, in.SessionID) THEN "session_not_found"
    ELSE IF in.id.sub # ss[in.SessionID].OwnerSub THEN "forbidden"
    ELSE ""

\* hub.Get and the ownership check of the viewer handler
JoinError(h, ss, in) ==
    IF ~Get(h, in.SessionID) THEN "session_not_found"
    ELSE IF in.id.provider # ss[in.SessionID].OwnerProvider
            \/ in.id.sub # ss[in.SessionID].OwnerSub THEN "forbidden"
    ELSE ""

VReject(v, code) ==
    /\ vlog' = [vlog EXCEPT ![v] = Append(@, ErrorFrame(code))]
    /\ vopen' = [vopen EXCEPT ![v] = FALSE]
    /\ vpc' = [vpc EXCEPT ![v] = "rejected"]
    /\ vsid' = [vsid EXCEPT ![v] = Empty]

\* Accept, read the first frame, verify the token, look the session up (part_018 244-299)
ViewerJoin(v, in) ==
    /\ vpc[v] = "idle"
    /\ IF v = 1 THEN TRUE ELSE vpc[v - 1] # "idle"
    /\ Accepted < MaxConns
    /\ in \in JoinInputs
    /\ IF FrameError(in) # ""
       THEN VReject(v, FrameError(in))
       ELSE IF JoinError(hub, sessions, in) # ""
       THEN VReject(v, JoinError(hub, sessions, in))
       ELSE /\ vpc' = [vpc EXCEPT ![v] = "add"]
            /\ vsid' = [vsid EXCEPT ![v] = in.SessionID]
            /\ vopen' = [vopen EXCEPT ![v] = TRUE]
            /\ UNCHANGED vlog
    /\ UNCHANGED <<hubVars, now, prodVars, vcnt, ret, streamVars, authVars, inputVars, codecVars, lockVars, fwdVars, cliVars>>

\* session.AddViewer (part_018 301-306)
ViewerAdd(v) ==
    /\ vpc[v] = "add"
    /\ IF AddViewerAccepts(sessions[vsid[v]])
       THEN /\ sessions' = [sessions EXCEPT ![vsid[v]] = AddViewer(@, v)]
            /\ vpc' = [vpc EXCEPT ![v] = "joined"]
            /\ UNCHANGED <<vlog, vopen, vsid>>
       ELSE /\ VReject(v, "session_full")
            /\ UNCHANGED sessions
    /\ UNCHANGED <<hub, nextSid, nextTok, now, prodVars, vcnt, ret, streamVars, authVars, inputVars, codecVars, lockVars, fwdVars, cliVars>>

\* the Joined frame (part_018 312-320)
ViewerJoined(v) ==
    /\ vpc[v] = "joined"
    /\ vlog' = WriteAll(vlog, vopen, {v}, JoinedFrame)
    /\ vpc' = [vpc EXCEPT ![v] = "notify"]
    /\ UNCHANGED <<hubVars, now, prodVars, vsid, vcnt, vopen, ret, streamVars, authVars, inputVars, codecVars, lockVars, fwdVars, cliVars>>

\* NotifyViewerCount reads s.ViewerCount() (part_020 165-166, 119-123)
ViewerCountRead(v) ==
    /\ vpc[v] \in {"notify", "unotify"}
    /\ vcnt' = [vcnt EXCEPT ![v] = ViewerCount(sessions[vsid[v]])]
    /\ vpc' = [vpc EXCEPT ![v] = IF vpc[v] = "notify" THEN "send" ELSE "usend"]
    /\ UNCHANGED <<hubVars, now, prodVars, vsid, vlog, vopen, ret, streamVars, authVars, inputVars, codecVars, lockVars, fwdVars, cliVars>>

\* SendToCLI without its test of cliDisconnected
SendToCLIIgnoresFlag(s) == {s.cliConn}

\* the connection SendToCLI writes on: none when the producer is disconnected
SendToCLI(s) == IF s.cliDisconnected THEN {} ELSE {s.cliConn}

\* NotifyViewerCount sends the count with SendToCLI (part_020 148-162)
ViewerCountSend(v) ==
    /\ vpc[v] \in {"send", "usend"}
    /\ plog' = WriteAll(plog, popen, SendToCLI(sessions[vsid[v]]), ViewerCountFrame(vcnt[v]))
    /\ vcnt' = [vcnt EXCEPT ![v] = 0]
    /\ vpc' = [vpc EXCEPT ![v] = IF vpc[v] = "send" THEN "loop" ELSE "left"]
    /\ vsid' = [vsid EXCEPT ![v] = IF vpc[v] = "send" THEN @ ELSE Empty]
    /\ UNCHANGED <<hubVars, now, pc, hello, psid, snap, deadline, popen, stdoutSent,
                   vlog, vopen, ret, streamVars, authVars, inputVars, codecVars, lockVars, fwdVars, cliVars>>

\* the read loop ends; deferred RemoveViewer (part_018 307-310, 328-333)
ViewerLeave(v) ==
    /\ vpc[v] = "loop"
    /\ vopen' = [vopen EXCEPT ![v] = FALSE]
    /\ sessions' = [sessions EXCEPT ![vsid[v]] = RemoveViewer(@, v)]
    /\ vpc' = [vpc EXCEPT ![v] = "unotify"]
    /\ UNCHANGED <<hub, nextSid, nextTok, now, prodVars, vsid, vcnt, vlog, ret, streamVars, authVars, inputVars, codecVars, lockVars, fwdVars, cliVars>>

(* ------------------------- the relay as a whole ------------------------ *)
\* goroutines that call Session.Close directly
Closers == 1..NumClosers
\* ids nanoid.New() gives pending logins
AuthIDs == 1..NumAuth
NoFrame == Frame("", "", 0, 0, 0)

\* no BroadcastToViewers of a read loop and no Close is running
StreamIdle ==
    /\ bframe = [c \in Producers |-> NoFrame]
    /\ cpc = [k \in Closers |-> "idle"]
    /\ crem = {}
    /\ cur = 0

\* no viewer handler is inside SendToCLI; Session.Mode is left out of the picture
NoSend == [targets |-> {}, frame |-> NoFrame]
\* goroutines that call Hub and Session operations
NumGoroutines == 2
Goroutines == 1..NumGoroutines
NoGoroutine == 0
Mutexes == {"hub", "session"}
Unlocked == [w |-> NoGoroutine, r |-> {}]
\* no goroutine is inside an operation and both mutexes are free
LockIdle ==
    /\ lop = [g \in Goroutines |-> "idle"]
    /\ lpos = [g \in Goroutines |-> 0]
    /\ mu = [m \in Mutexes |-> Unlocked]

\* the CLI is not running
CLIIdle ==
    /\ cli = [state |-> "none", sessionID |-> 0, reconnectToken |-> 0, attempt |-> 0]
    /\ net = [up |-> TRUE, losses |-> 0]

\* no Encode or Decode call has been made
FwdIdle == fmsg = [called |-> FALSE] /\ fout = [called |-> FALSE]
NoInput == [tag |-> 0, payload |-> [kind |-> "none"]]
NoCall == [called |-> FALSE]
CodecIdle == cin = NoInput /\ cmsg = NoCall /\ cout = NoCall

InputIdle ==
    /\ mode = [s \in SessionIDs |-> ""]
    /\ vsend = [v \in Viewers |-> NoSend]

\* make(map[string]*AuthSession): the store is empty
NoAuthSession == [state |-> "unused", CreatedAt |-> ZeroTime, IDToken |-> Empty]

AuthIdle ==
    /\ auth = [id \in AuthIDs |-> NoAuthSession]
    /\ handed = [id \in AuthIDs |-> [IDToken |-> Empty, n |-> 0]]

Init ==
    /\ hub = {}
    /\ sessions = [s \in SessionIDs |-> NoSession]
    /\ nextSid = 1
    /\ nextTok = 1
    /\ now = 0
    /\ pc = [c \in Producers |-> "idle"]
    /\ hello = [c \in Producers |-> NoHello]
    /\ psid = [c \in Producers |-> Empty]
    /\ snap = [c \in Producers |-> {}]
    /\ deadline = [c \in Producers |-> 0]
    /\ plog = [c \in Producers |-> <<>>]
    /\ popen = [c \in Producers |-> FALSE]
    /\ stdoutSent = 0
    /\ vpc = [v \in Viewers |-> "idle"]
    /\ vsid = [v \in Viewers |-> Empty]
    /\ vcnt = [v \in Viewers |-> 0]
    /\ vlog = [v \in Viewers |-> <<>>]
    /\ vopen = [v \in Viewers |-> FALSE]
    /\ ret = "none"
    /\ StreamIdle
    /\ AuthIdle
    /\ InputIdle
    /\ CodecIdle
    /\ LockIdle
    /\ FwdIdle
    /\ CLIIdle

Next ==
    \/ \E c \in Producers : \E in \in HelloFrames : CLIHello(c, in)
    \/ \E c \in Producers : CLITokenCheck(c)
    \/ \E c \in Producers : CLIHubReconnect(c)
    \/ \E c \in Producers : CLIReplace(c)
    \/ \E c \in Producers : CLIRotate(c)
    \/ \E c \in Producers : CLIWelcome(c)
    \/ \E c \in Producers : CLIDrop(c)
    \/ \E c \in Producers : CLIMarkWrite(c)
    \/ \E c \in Producers : ReaperCheck(c)
    \/ \E c \in Producers : ReaperUnregister(c)
    \/ \E c \in Producers : ReaperClose(c)
    \/ \E v \in Viewers : \E in \in JoinInputs : ViewerJoin(v, in)
    \/ \E v \in Viewers : ViewerAdd(v)
    \/ \E v \in Viewers : ViewerJoined(v)
    \/ \E v \in Viewers : ViewerCountRead(v)
    \/ \E v \in Viewers : ViewerCountSend(v)
    \/ \E v \in Viewers : ViewerLeave(v)
    \/ CloseAll
    \/ Tick

Spec == Init /\ [][Next]_vars

\* Scheduling: wall-clock time advances, a started broadcast finishes, and the
\* reaper goroutine runs each of its steps once it can.
FairSpec ==
    /\ Init
    /\ [][Next]_vars
    /\ WF_vars(Tick)
    /\ \A c \in Producers :
        /\ WF_vars(CLIMarkWrite(c))
        /\ WF_vars(ReaperCheck(c))
        /\ WF_vars(ReaperUnregister(c))
        /\ WF_vars(ReaperClose(c))

TypeOK ==
    /\ hub \subseteq SessionIDs
    /\ nextSid \in 1..(NumProducers + 1)
    /\ nextTok \in 1..(NumProducers + 1)
    /\ \A c \in Producers : psid[c] \in {Empty} \cup SessionIDs
    /\ \A v \in Viewers : vsid[v] \in {Empty} \cup SessionIDs

(* ------------------------ session-level harness ------------------------ *)
\* A Session used directly, as the unit tests of part_020 use it: viewer ids are
\* drawn from ViewerIDs, the connections of Viewers are open and observed, the
\* others are nil.
InitSession ==
    /\ hub = {}
    /\ sessions = [s \in SessionIDs |->
            IF s = 1 THEN NewSession(1, "google", "u1", 0, 1) ELSE NoSession]
    /\ nextSid = 2
    /\ nextTok = 2
    /\ now = 0
    /\ pc = [c \in Producers |-> "idle"]
    /\ hello = [c \in Producers |-> NoHello]
    /\ psid = [c \in Producers |-> Empty]
    /\ snap = [c \in Producers |-> {}]
    /\ deadline = [c \in Producers |-> 0]
    /\ plog = [c \in Producers |-> <<>>]
    /\ popen = [c \in Producers |-> FALSE]
    /\ stdoutSent = 0
    /\ vpc = [v \in Viewers |-> "idle"]
    /\ vsid = [v \in Viewers |-> Empty]
    /\ vcnt = [v \in Viewers |-> 0]
    /\ vlog = [v \in Viewers |-> <<>>]
    /\ vopen = [v \in Viewers |-> TRUE]
    /\ ret = "none"
    /\ StreamIdle
    /\ AuthIdle
    /\ InputIdle
    /\ CodecIdle
    /\ LockIdle
    /\ FwdIdle
    /\ CLIIdle

\* s.AddViewer(id, conn) (part_020 101-109)
SAddViewer(id) ==
    /\ ret' = IF AddViewerAccepts(sessions[1]) THEN "true" ELSE "false"
    /\ sessions' = [sessions EXCEPT ![1] = AddViewer(@, id)]
    /\ UNCHANGED <<hub, nextSid, nextTok, now, prodVars, viewVars, streamVars, authVars, inputVars, codecVars, lockVars, fwdVars, cliVars>>

\* s.RemoveViewer(id) (part_020 112-116)
SRemoveViewer(id) ==
    /\ sessions' = [sessions EXCEPT ![1] = RemoveViewer(@, id)]
    /\ UNCHANGED <<hub, nextSid, nextTok, now, prodVars, viewVars, ret, streamVars, authVars, inputVars, codecVars, lockVars, fwdVars, cliVars>>

\* s.BroadcastToViewers(ctx, TypeStdout, payload) (part_020 126-145)
SBroadcast ==
    /\ stdoutSent < MaxStdout
    /\ stdoutSent' = stdoutSent + 1
    /\ vlog' = WriteAll(vlog, vopen, sessions[1].viewers, StdoutFrame)
    /\ UNCHANGED <<hubVars, now, pc, hello, psid, snap, deadline, plog, popen,
                   vpc, vsid, vcnt, vopen, ret, streamVars, authVars, inputVars, codecVars, lockVars, fwdVars, cliVars>>

\* s.Close() (part_020 170-185)
SClose ==
    /\ vlog' = WriteAll(vlog, vopen, CloseTargets(sessions[1]), EndFrame)
    /\ vopen' = [v \in DOMAIN vopen |-> vopen[v] /\ v \notin CloseTargets(sessions[1])]
    /\ sessions' = [sessions EXCEPT ![1] = Close(@)]
    /\ UNCHANGED <<hub, nextSid, nextTok, now, prodVars, vpc, vsid, vcnt, ret, streamVars, authVars, inputVars, codecVars, lockVars, fwdVars, cliVars>>

NextSession ==
    \/ \E id \in ViewerIDs : SAddViewer(id)
    \/ \E id \in ViewerIDs : SRemoveViewer(id)
    \/ SBroadcast
    \/ SClose

SpecSession == InitSession /\ [][NextSession]_vars

(* ------------- one session: MarkDisconnected and ReplaceCLI ------------ *)
\* Reconnect frames a viewer connection carries at most in a run
MaxMarks == 3

\* s.MarkDisconnected() (part_020 66-73): the fields, then the broadcast
SMarkDisconnected ==
    /\ \A v \in Viewers : Len(vlog[v]) < MaxMarks
    /\ sessions' = [sessions EXCEPT ![1] = MarkDisconnected(@, now)]
    /\ vlog' = WriteAll(vlog, vopen, sessions[1].viewers, ReconnectFrame("disconnected"))
    /\ UNCHANGED <<hub, nextSid, nextTok, now, prodVars, vpc, vsid, vcnt, vopen, ret,
                   streamVars, authVars, inputVars, codecVars, lockVars, fwdVars, cliVars>>

\* s.ReplaceCLI(conn) (part_020 76-84): the fields, then the broadcast
SReplaceCLI(conn) ==
    /\ \A v \in Viewers : Len(vlog[v]) < MaxMarks
    /\ sessions' = [sessions EXCEPT ![1] = ReplaceCLI(@, conn)]
    /\ vlog' = WriteAll(vlog, vopen, sessions[1].viewers, ReconnectFrame("reconnected"))
    /\ UNCHANGED <<hub, nextSid, nextTok, now, prodVars, vpc, vsid, vcnt, vopen, ret,
                   streamVars, authVars, inputVars, codecVars, lockVars, fwdVars, cliVars>>

\* time passes between the calls
MarkTick ==
    /\ now < MaxMarks * TickStep
    /\ now' = now + TickStep
    /\ UNCHANGED <<hubVars, prodVars, viewVars, ret, streamVars, authVars, inputVars,
                   codecVars, lockVars, fwdVars, cliVars>>

NextMark ==
    \/ \E id \in Viewers : SAddViewer(id)
    \/ SMarkDisconnected
    \/ \E conn \in Producers : SReplaceCLI(conn)
    \/ MarkTick

SpecMark == InitSession /\ [][NextMark]_vars

(* -------------------- one session, streaming and closing --------------- *)
\* Session 1 with its producer in the read loop and a reconnect Hello of the owner
\* that has passed the token check; the connections of Viewers are open. Writes
\* of a broadcast and the End write and connection close of Close are single steps.
InitStream ==
    /\ hub = {1}
    /\ sessions = [s \in SessionIDs |->
            IF s = 1 THEN NewSession(1, "google", "u1", 1, 1) ELSE NoSession]
    /\ nextSid = 2
    /\ nextTok = 2
    /\ now = 0
    /\ pc = [c \in Producers |-> IF c = 1 THEN "loop" ELSE IF c = 2 THEN "reconnect" ELSE "idle"]
    /\ hello = [c \in Producers |-> NoHello]
    /\ psid = [c \in Producers |-> IF c \in {1, 2} THEN 1 ELSE Empty]
    /\ snap = [c \in Producers |-> {}]
    /\ deadline = [c \in Producers |-> 0]
    /\ plog = [c \in Producers |-> IF c = 1 THEN <<WelcomeFrame(1, 1)>> ELSE <<>>]
    /\ popen = [c \in Producers |-> c \in {1, 2}]
    /\ stdoutSent = 0
    /\ vpc = [v \in Viewers |-> "idle"]
    /\ vsid = [v \in Viewers |-> Empty]
    /\ vcnt = [v \in Viewers |-> 0]
    /\ vlog = [v \in Viewers |-> <<>>]
    /\ vopen = [v \in Viewers |-> TRUE]
    /\ ret = "none"
    /\ StreamIdle
    /\ AuthIdle
    /\ InputIdle
    /\ CodecIdle
    /\ LockIdle
    /\ FwdIdle
    /\ CLIIdle

\* a Close holds the session's write lock
CloseRunning == \E k \in Closers : cpc[k] = "closing"

\* the frame types the read loop broadcasts
StreamKinds == {"Stdout", "Resize"}

\* the n-th frame of the producer's stream
StreamFrame(kind, n) == Frame(kind, "", 0, 0, n)

\* the read loop reads a frame; BroadcastToViewers encodes it once and snapshots
\* the viewers under RLock (part_017 107-127, part_020 126-138)
StreamRead(c, kind) ==
    /\ pc[c] = "loop"
    /\ popen[c]
    /\ stdoutSent < MaxStdout
    /\ ~CloseRunning
    /\ stdoutSent' = stdoutSent + 1
    /\ snap' = [snap EXCEPT ![c] = sessions[psid[c]].viewers]
    /\ bframe' = [bframe EXCEPT ![c] =
            IF sessions[psid[c]].viewers = {} THEN NoFrame
            ELSE StreamFrame(kind, stdoutSent + 1)]
    /\ pc' = [pc EXCEPT ![c] = IF sessions[psid[c]].viewers = {} THEN "loop" ELSE "bwrite"]
    /\ UNCHANGED <<hubVars, now, hello, psid, deadline, plog, popen, viewVars, ret,
                   cpc, crem, cur, authVars, inputVars, codecVars, lockVars, fwdVars, cliVars>>

\* one conn.Write of the broadcast loop (part_020 140-144)
StreamWrite(c, v) ==
    /\ pc[c] = "bwrite"
    /\ v \in snap[c]
    /\ vlog' = WriteAll(vlog, vopen, {v}, bframe[c])
    /\ snap' = [snap EXCEPT ![c] = @ \ {v}]
    /\ bframe' = [bframe EXCEPT ![c] = IF snap[c] = {v} THEN NoFrame ELSE @]
    /\ pc' = [pc EXCEPT ![c] = IF snap[c] = {v} THEN "loop" ELSE "bwrite"]
    /\ UNCHANGED <<hubVars, now, hello, psid, deadline, plog, popen, stdoutSent,
                   vpc, vsid, vcnt, vopen, ret, cpc, crem, cur, authVars, inputVars, codecVars, lockVars, fwdVars, cliVars>>

\* s.Close() takes the lock: returns if closed, else sets closed (part_020 170-176);
\* the viewer map is replaced before the lock is released (part_020 184)
CloseCall(k) ==
    /\ cpc[k] = "idle"
    /\ ~CloseRunning
    /\ crem' = CloseTargets(sessions[1])
    /\ sessions' = [sessions EXCEPT ![1] = Close(@)]
    /\ cpc' = [cpc EXCEPT ![k] =
            IF sessions[1].closed THEN "noop"
            ELSE IF CloseTargets(sessions[1]) = {} THEN "closed" ELSE "closing"]
    /\ UNCHANGED <<hub, nextSid, nextTok, now, prodVars, viewVars, ret, bframe, cur, authVars, inputVars, codecVars, lockVars, fwdVars, cliVars>>

\* conn.Write of End to the next viewer of the loop (part_020 180-181)
CloseWriteEnd(k, v) ==
    /\ cpc[k] = "closing"
    /\ cur = 0
    /\ v \in crem
    /\ vlog' = WriteAll(vlog, vopen, {v}, EndFrame)
    /\ cur' = v
    /\ crem' = crem \ {v}
    /\ UNCHANGED <<hubVars, now, prodVars, vpc, vsid, vcnt, vopen, ret, bframe, cpc, authVars, inputVars, codecVars, lockVars, fwdVars, cliVars>>

\* conn.Close of that viewer (part_020 182); after the last one Close returns
CloseConn(k) ==
    /\ cpc[k] = "closing"
    /\ cur # 0
    /\ vopen' = [vopen EXCEPT ![cur] = FALSE]
    /\ cur' = 0
    /\ cpc' = [cpc EXCEPT ![k] = IF crem = {} THEN "closed" ELSE "closing"]
    /\ UNCHANGED <<hubVars, now, prodVars, vpc, vsid, vcnt, vlog, ret, bframe, crem, authVars, inputVars, codecVars, lockVars, fwdVars, cliVars>>

\* the peer of a viewer connection goes away; later writes on it fail
ViewerConnBreak(v) ==
    /\ vopen[v]
    /\ vopen' = [vopen EXCEPT ![v] = FALSE]
    /\ UNCHANGED <<hubVars, now, prodVars, vpc, vsid, vcnt, vlog, ret, streamVars, authVars, inputVars, codecVars, lockVars, fwdVars, cliVars>>

\* viewers attach and leave while the producer streams and Close is called
NextStream ==
    \/ \E c \in Producers : \E kind \in StreamKinds : StreamRead(c, kind)
    \/ \E c \in Producers : \E v \in Viewers : StreamWrite(c, v)
    \/ \E k \in Closers : CloseCall(k)
    \/ \E k \in Closers : \E v \in Viewers : CloseWriteEnd(k, v)
    \/ \E k \in Closers : CloseConn(k)
    \/ \E v \in Viewers : ViewerConnBreak(v)
    \/ \E v \in Viewers : ~CloseRunning /\ vopen[v] /\ vlog[v] = <<>> /\ SAddViewer(v)
    \/ \E v \in Viewers : ~CloseRunning /\ v \in sessions[1].viewers /\ SRemoveViewer(v)

SpecStream == InitStream /\ [][NextStream]_vars

\* the producer streams, drops and reconnects while viewers attach and leave
NextResume ==
    \/ \E c \in Producers : \E kind \in StreamKinds : StreamRead(c, kind)
    \/ \E c \in Producers : \E v \in Viewers : StreamWrite(c, v)
    \/ \E v \in Viewers : vlog[v] = <<>> /\ SAddViewer(v)
    \/ \E v \in Viewers : v \in sessions[1].viewers /\ SRemoveViewer(v)
    \/ \E c \in Producers : CLIDrop(c)
    \/ \E c \in Producers : CLIMarkWrite(c)
    \/ \E c \in Producers : CLIHubReconnect(c)
    \/ \E c \in Producers : CLIReplace(c)
    \/ \E c \in Producers : CLIRotate(c)
    \/ \E c \in Producers : CLIWelcome(c)

SpecResume == InitStream /\ [][NextResume]_vars

(* ------------------- concurrent attaches to one session ---------------- *)
\* viewer handlers whose run is followed past the Joined frame, to their leaving
Leavers == {1}

\* Session 1 is fresh and open, its producer in the read loop; MaxViewerIDs viewer
\* handlers of the owner have passed the Join checks and are about to call AddViewer.
InitAttach ==
    /\ hub = {1}
    /\ sessions = [s \in SessionIDs |->
            IF s = 1 THEN NewSession(1, "google", "u1", 1, 1) ELSE NoSession]
    /\ nextSid = 2
    /\ nextTok = 2
    /\ now = 0
    /\ pc = [c \in Producers |-> IF c = 1 THEN "loop" ELSE "idle"]
    /\ hello = [c \in Producers |-> NoHello]
    /\ psid = [c \in Producers |-> IF c = 1 THEN 1 ELSE Empty]
    /\ snap = [c \in Producers |-> {}]
    /\ deadline = [c \in Producers |-> 0]
    /\ plog = [c \in Producers |-> IF c = 1 THEN <<WelcomeFrame(1, 1)>> ELSE <<>>]
    /\ popen = [c \in Producers |-> c = 1]
    /\ stdoutSent = 0
    /\ vpc = [v \in ViewerIDs |-> "add"]
    /\ vsid = [v \in ViewerIDs |-> 1]
    /\ vcnt = [v \in ViewerIDs |-> 0]
    /\ vlog = [v \in ViewerIDs |-> <<>>]
    /\ vopen = [v \in ViewerIDs |-> TRUE]
    /\ ret = "none"
    /\ StreamIdle
    /\ AuthIdle
    /\ InputIdle
    /\ CodecIdle
    /\ LockIdle
    /\ FwdIdle
    /\ CLIIdle

\* session.AddViewer and, when it accepts, the Joined frame written on the
\* handler's own connection (part_018 301-320)
ViewerAttach(v) ==
    /\ vpc[v] = "add"
    /\ IF AddViewerAccepts(sessions[vsid[v]])
       THEN /\ sessions' = [sessions EXCEPT ![vsid[v]] = AddViewer(@, v)]
            /\ vlog' = WriteAll(vlog, vopen, {v}, JoinedFrame)
            /\ vpc' = [vpc EXCEPT ![v] = "notify"]
            /\ UNCHANGED <<vopen, vsid>>
       ELSE /\ VReject(v, "session_full")
            /\ UNCHANGED sessions
    /\ UNCHANGED <<hub, nextSid, nextTok, now, prodVars, vcnt, ret, streamVars, authVars, inputVars, codecVars, lockVars, fwdVars, cliVars>>

NextAttach ==
    \/ \E v \in ViewerIDs : ViewerAttach(v)
    \/ \E v \in Leavers : ViewerCountRead(v)
    \/ \E v \in Leavers : ViewerCountSend(v)
    \/ \E v \in Leavers : ViewerLeave(v)

SpecAttach == InitAttach /\ [][NextAttach]_vars

(* --------------------------- AuthSessionStore -------------------------- *)
\* NewAuthSessionStore(5 * time.Minute), in seconds
AuthTTL == 300
\* step of the clock and its last value in a run of the store
AuthTickStep == 150
AuthMaxTime == 450
\* id tokens the identity provider returns, never the empty string
AuthTokens == {1, 2}

\* what Get and Consume return
AuthResult(op, present, sess, token) ==
    [op |-> op, present |-> present, sess |-> sess, IDToken |-> token]
\* no call of the store has returned
NoAuthResult == AuthResult("none", FALSE, NoAuthSession, Empty)

\* the expiry test with >= for >
ExpiredAtTTL(sess, t) == t - sess.CreatedAt >= AuthTTL

\* time.Since(sess.CreatedAt) > s.ttl
Expired(sess, t) == t - sess.CreatedAt > AuthTTL

\* a delete that leaves the entry in the map
DeleteKeepsEntry(sess) == sess

\* delete(s.sessions, id)
DeleteEntry(sess) == [state |-> "gone", CreatedAt |-> ZeroTime, IDToken |-> Empty]

InitAuth ==
    /\ hub = {}
    /\ sessions = [s \in SessionIDs |-> NoSession]
    /\ nextSid = 1
    /\ nextTok = 1
    /\ now = 0
    /\ pc = [c \in Producers |-> "idle"]
    /\ hello = [c \in Producers |-> NoHello]
    /\ psid = [c \in Producers |-> Empty]
    /\ snap = [c \in Producers |-> {}]
    /\ deadline = [c \in Producers |-> 0]
    /\ plog = [c \in Producers |-> <<>>]
    /\ popen = [c \in Producers |-> FALSE]
    /\ stdoutSent = 0
    /\ vpc = [v \in Viewers |-> "idle"]
    /\ vsid = [v \in Viewers |-> Empty]
    /\ vcnt = [v \in Viewers |-> 0]
    /\ vlog = [v \in Viewers |-> <<>>]
    /\ vopen = [v \in Viewers |-> FALSE]
    /\ ret = NoAuthResult
    /\ StreamIdle
    /\ AuthIdle
    /\ InputIdle
    /\ CodecIdle
    /\ LockIdle
    /\ FwdIdle
    /\ CLIIdle

\* AuthSessionStore.Create (hub.go 229-241); nanoid.New() gives an id not used before
AuthCreate(id) ==
    /\ auth[id].state = "unused"
    /\ \A j \in AuthIDs : j < id => auth[j].state # "unused"
    /\ auth' = [auth EXCEPT ![id] = [state |-> "pending", CreatedAt |-> now, IDToken |-> Empty]]
    /\ ret' = AuthResult("Create", TRUE, auth'[id], Empty)
    /\ UNCHANGED <<hubVars, now, prodVars, viewVars, streamVars, handed, inputVars, codecVars, lockVars, fwdVars, cliVars>>

\* AuthSessionStore.Get (hub.go 244-256)
AuthGet(id) ==
    /\ IF auth[id].state # "pending"
       THEN /\ ret' = AuthResult("Get", FALSE, NoAuthSession, Empty)
            /\ UNCHANGED auth
       ELSE IF Expired(auth[id], now)
       THEN /\ auth' = [auth EXCEPT ![id] = DeleteEntry(@)]
            /\ ret' = AuthResult("Get", FALSE, NoAuthSession, Empty)
       ELSE /\ ret' = AuthResult("Get", TRUE, auth[id], Empty)
            /\ UNCHANGED auth
    /\ UNCHANGED <<hubVars, now, prodVars, viewVars, streamVars, handed, inputVars, codecVars, lockVars, fwdVars, cliVars>>

\* AuthSessionStore.Complete (hub.go 259-265), called by the callback with a
\* non-empty id token (part_018 200-205)
AuthComplete(id, token) ==
    /\ auth' = [auth EXCEPT ![id] =
            IF @.state = "pending" THEN [@ EXCEPT !.IDToken = token] ELSE @]
    /\ handed' = [handed EXCEPT ![id] =
            IF auth[id].state = "pending" THEN [@ EXCEPT !.IDToken = token] ELSE @]
    /\ ret' = NoAuthResult
    /\ UNCHANGED <<hubVars, now, prodVars, viewVars, streamVars, inputVars, codecVars, lockVars, fwdVars, cliVars>>

\* Consume that deletes the entry it finds even when its id token is empty
AuthConsumeDeletesPending(id) ==
    /\ IF auth[id].state # "pending"
       THEN /\ ret' = AuthResult("Consume", FALSE, NoAuthSession, Empty)
            /\ UNCHANGED <<auth, handed>>
       ELSE /\ ret' = AuthResult("Consume", auth[id].IDToken # Empty, NoAuthSession, auth[id].IDToken)
            /\ auth' = [auth EXCEPT ![id] = DeleteEntry(@)]
            /\ handed' = [handed EXCEPT ![id].n = IF auth[id].IDToken # Empty THEN @ + 1 ELSE @]
    /\ UNCHANGED <<hubVars, now, prodVars, viewVars, streamVars, inputVars, codecVars, lockVars, fwdVars, cliVars>>

\* AuthSessionStore.Consume (hub.go 268-278), called by HandleAuthPoll (part_018 214)
AuthConsume(id) ==
    /\ IF auth[id].state # "pending" \/ auth[id].IDToken = Empty
       THEN /\ ret' = AuthResult("Consume", FALSE, NoAuthSession, Empty)
            /\ UNCHANGED <<auth, handed>>
       ELSE /\ ret' = AuthResult("Consume", TRUE, NoAuthSession, auth[id].IDToken)
            /\ auth' = [auth EXCEPT ![id] = DeleteEntry(@)]
            /\ handed' = [handed EXCEPT ![id].n = @ + 1]
    /\ UNCHANGED <<hubVars, now, prodVars, viewVars, streamVars, inputVars, codecVars, lockVars, fwdVars, cliVars>>

\* one round of the cleanup goroutine (hub.go 293-300)
AuthCleanup ==
    /\ auth' = [id \in AuthIDs |->
            IF auth[id].state = "pending" /\ Expired(auth[id], now)
            THEN DeleteEntry(auth[id]) ELSE auth[id]]
    /\ ret' = NoAuthResult
    /\ UNCHANGED <<hubVars, now, prodVars, viewVars, streamVars, handed, inputVars, codecVars, lockVars, fwdVars, cliVars>>

\* time passes
AuthTick ==
    /\ now < AuthMaxTime
    /\ now' = now + AuthTickStep
    /\ ret' = NoAuthResult
    /\ UNCHANGED <<hubVars, prodVars, viewVars, streamVars, authVars, inputVars, codecVars, lockVars, fwdVars, cliVars>>

NextAuth ==
    \/ \E id \in AuthIDs : AuthCreate(id)
    \/ \E id \in AuthIDs : AuthGet(id)
    \/ \E id \in AuthIDs : \E token \in AuthTokens : AuthComplete(id, token)
    \/ \E id \in AuthIDs : AuthConsume(id)
    \/ AuthCleanup
    \/ AuthTick

SpecAuth == InitAuth /\ [][NextAuth]_vars

(* ------------------------ viewer input to the producer ----------------- *)
\* frames a viewer sends after Joined, and the payloads they carry
MaxInput == 2
InputKinds == {"Stdin", "Resize", "Pong"}
InputPayloads == {1, 2}
\* Hello.Mode is any string the producer sent
Modes == {"pty", "pipe", ""}

InputFrame(kind, payload) == Frame(kind, "", 0, 0, payload)

\* the read loop's switch that forwards Stdin in any mode
ForwardsAnyMode(kind, m) == kind \in {"Stdin", "Resize"}

\* the read loop's switch: Stdin is forwarded in pty mode only, Resize always,
\* Pong never (part_018 340-350)
Forwards(kind, m) ==
    IF kind = "Stdin" THEN m = "pty" ELSE kind = "Resize"

\* viewer frames written on producer connections or about to be
InputsSent ==
    Cardinality({<<c, i>> \in Producers \X (1..(MaxInput + 4)) :
        i \in DOMAIN plog[c] /\ plog[c][i].t \in InputKinds})
    + Cardinality({v \in Viewers : vsend[v] # NoSend})

\* Session 1, in any mode, has its producer in the read loop and both viewers
\* attached and in their read loops; a reconnect Hello of the owner has passed
\* the token check.
InitInput ==
    /\ hub = {1}
    /\ sessions = [s \in SessionIDs |->
            IF s = 1
            THEN [NewSession(1, "google", "u1", 1, 1) EXCEPT !.viewers = Viewers]
            ELSE NoSession]
    /\ nextSid = 2
    /\ nextTok = 2
    /\ now = 0
    /\ pc = [c \in Producers |-> IF c = 1 THEN "loop" ELSE IF c = 2 THEN "reconnect" ELSE "idle"]
    /\ hello = [c \in Producers |-> NoHello]
    /\ psid = [c \in Producers |-> IF c \in {1, 2} THEN 1 ELSE Empty]
    /\ snap = [c \in Producers |-> {}]
    /\ deadline = [c \in Producers |-> 0]
    /\ plog = [c \in Producers |-> IF c = 1 THEN <<WelcomeFrame(1, 1)>> ELSE <<>>]
    /\ popen = [c \in Producers |-> c \in {1, 2}]
    /\ stdoutSent = 0
    /\ vpc = [v \in Viewers |-> "loop"]
    /\ vsid = [v \in Viewers |-> 1]
    /\ vcnt = [v \in Viewers |-> 0]
    /\ vlog = [v \in Viewers |-> <<JoinedFrame>>]
    /\ vopen = [v \in Viewers |-> TRUE]
    /\ ret = "none"
    /\ StreamIdle
    /\ AuthIdle
    /\ \E m \in Modes : mode = [s \in SessionIDs |-> IF s = 1 THEN m ELSE ""]
    /\ vsend = [v \in Viewers |-> NoSend]
    /\ CodecIdle
    /\ LockIdle
    /\ FwdIdle
    /\ CLIIdle

\* the viewer's read loop reads a frame; for a forwarded one SendToCLI tests
\* cliDisconnected and reads cliConn under RLock (part_018 328-350, part_020 148-155)
ViewerInput(v, kind, payload) ==
    /\ vpc[v] = "loop"
    /\ vopen[v]
    /\ vsend[v] = NoSend
    /\ InputsSent < MaxInput
    /\ IF ~Forwards(kind, mode[vsid[v]])
       THEN UNCHANGED <<ret, vsend>>
       ELSE IF SendToCLI(sessions[vsid[v]]) = {}
       THEN /\ ret' = "cli disconnected"
            /\ UNCHANGED vsend
       ELSE /\ vsend' = [vsend EXCEPT ![v] =
                    [targets |-> SendToCLI(sessions[vsid[v]]), frame |-> InputFrame(kind, payload)]]
            /\ UNCHANGED ret
    /\ UNCHANGED <<hubVars, now, prodVars, viewVars, streamVars, authVars, mode, codecVars, lockVars, fwdVars, cliVars>>

\* SendToCLI encodes and writes on the connection it read (part_020 157-161)
ViewerInputWrite(v) ==
    /\ vsend[v] # NoSend
    /\ plog' = WriteAll(plog, popen, vsend[v].targets, vsend[v].frame)
    /\ ret' = IF \A c \in vsend[v].targets : popen[c] THEN "nil" ELSE "write error"
    /\ vsend' = [vsend EXCEPT ![v] = NoSend]
    /\ UNCHANGED <<hubVars, now, pc, hello, psid, snap, deadline, popen, stdoutSent,
                   viewVars, streamVars, authVars, mode, codecVars, lockVars, fwdVars, cliVars>>

NextInput ==
    \/ \E v \in Viewers : \E kind \in InputKinds : \E payload \in InputPayloads :
            ViewerInput(v, kind, payload)
    \/ \E v \in Viewers : ViewerInputWrite(v)
    \/ \E c \in Producers : CLIDrop(c)
    \/ \E c \in Producers : CLIMarkWrite(c)
    \/ \E c \in Producers : CLIHubReconnect(c)
    \/ \E c \in Producers : CLIReplace(c)
    \/ \E c \in Producers : CLIRotate(c)
    \/ \E c \in Producers : CLIWelcome(c)

SpecInput == InitInput /\ [][NextInput]_vars

(* ---------------------------- GET /api/sessions ------------------------ *)
\* what HandleListSessions answers: a status and the ids it lists
ListAnswer(status, list) == [status |-> status, list |-> list]

\* Sessions of any owners have been opened; some are registered, some of those
\* are in their grace period, the others have been unregistered and closed.
InitList ==
    /\ \E owner \in [SessionIDs -> Identities] :
       \E registered \in SUBSET SessionIDs :
       \E grace \in SUBSET registered :
            /\ hub = registered
            /\ sessions = [s \in SessionIDs |->
                    LET fresh == NewSession(s, owner[s].provider, owner[s].sub, s, s)
                    IN IF s \in grace THEN MarkDisconnected(fresh, 0)
                       ELSE IF s \in registered THEN fresh
                       ELSE Close(MarkDisconnected(fresh, 0))]
    /\ nextSid = NumProducers + 1
    /\ nextTok = NumProducers + 1
    /\ now = 0
    /\ pc = [c \in Producers |-> IF sessions[c].cliDisconnected THEN "sleep" ELSE "loop"]
    /\ hello = [c \in Producers |-> NoHello]
    /\ psid = [c \in Producers |-> c]
    /\ snap = [c \in Producers |-> {}]
    /\ deadline = [c \in Producers |-> IF sessions[c].cliDisconnected THEN GracePeriod ELSE 0]
    /\ plog = [c \in Producers |-> <<WelcomeFrame(c, c)>>]
    /\ popen = [c \in Producers |-> ~sessions[c].cliDisconnected]
    /\ stdoutSent = 0
    /\ vpc = [v \in Viewers |-> "idle"]
    /\ vsid = [v \in Viewers |-> Empty]
    /\ vcnt = [v \in Viewers |-> 0]
    /\ vlog = [v \in Viewers |-> <<>>]
    /\ vopen = [v \in Viewers |-> FALSE]
    /\ ret = ListAnswer("none", {})
    /\ StreamIdle
    /\ AuthIdle
    /\ InputIdle
    /\ CodecIdle
    /\ LockIdle
    /\ FwdIdle
    /\ CLIIdle

\* HandleListSessions: extractIdentity, then Hub.ListForOwner (handler_api.go 18-40)
HandleListSessions(id) ==
    /\ ret' = IF id = NoIdentity
              THEN ListAnswer("unauthorized", {})
              ELSE ListAnswer("ok", ListForOwner(hub, sessions, id.provider, id.sub))
    /\ UNCHANGED <<hubVars, now, prodVars, viewVars, streamVars, authVars, inputVars, codecVars, lockVars, fwdVars, cliVars>>

NextList == \E id \in Identities \cup {NoIdentity} : HandleListSessions(id)

SpecList == InitList /\ [][NextList]_vars

(* ------------------------ protocol.Encode / Decode --------------------- *)
\* message type bytes (part_010 5-18)
TypeStdout == 1
TypeStdin == 2
TypeResize == 3
TypeHello == 16
TypeWelcome == 17
TypeJoin == 18
TypeJoined == 19
TypeReconnect == 20
TypeEnd == 21
TypeError == 22
TypeViewerCount == 32
TypeMode == 33
TypePing == 48
TypePong == 49

RawTags == {TypeStdout, TypeStdin}
EmptyTags == {TypePing, TypePong, TypeEnd}
JSONTags == {TypeResize, TypeHello, TypeWelcome, TypeJoin, TypeJoined, TypeReconnect,
             TypeError, TypeViewerCount, TypeMode}
Tags == RawTags \cup EmptyTags \cup JSONTags

\* byte sequences of up to MaxBytes bytes
MaxBytes == 2
ByteSamples == {0, 123, 255}
ByteSeqs == UNION {[1..n -> ByteSamples] : n \in 0..MaxBytes}

\* payload values (Go's `any`): a []byte, nil, two of the message structs, and
\* a channel, which encoding/json cannot marshal
Bytes(data) == [kind |-> "bytes", data |-> data]
Nil == [kind |-> "nil"]
ResizeValue(cols, rows) == [kind |-> "Resize", cols |-> cols, rows |-> rows]
ViewerCountValue(count) == [kind |-> "ViewerCount", count |-> count]
Chan == [kind |-> "chan"]
Payloads ==
    {Bytes(d) : d \in ByteSeqs} \cup {Nil, Chan}
        \cup {ResizeValue(c, r) : c \in {0, 80}, r \in {24}}
        \cup {ViewerCountValue(n) : n \in {0, 10}}

\* strconv's decimal text of an int, in ASCII
RECURSIVE Digits(_)
Digits(n) ==
    IF n < 0 THEN <<45>> \o Digits(-n)
    ELSE IF n < 10 THEN <<48 + n>>
    ELSE Digits(n \div 10) \o <<48 + (n % 10)>>

\* base64.StdEncoding: the alphabet, and the padded encoding of a byte sequence
B64Char(i) ==
    IF i < 26 THEN 65 + i
    ELSE IF i < 52 THEN 97 + (i - 26)
    ELSE IF i < 62 THEN 48 + (i - 52)
    ELSE IF i = 62 THEN 43 ELSE 47

RECURSIVE Base64(_)
Base64(d) ==
    IF Len(d) = 0 THEN <<>>
    ELSE IF Len(d) = 1
    THEN <<B64Char(d[1] \div 4), B64Char((d[1] % 4) * 16), 61, 61>>
    ELSE IF Len(d) = 2
    THEN <<B64Char(d[1] \div 4), B64Char((d[1] % 4) * 16 + d[2] \div 16),
           B64Char((d[2] % 16) * 4), 61>>
    ELSE <<B64Char(d[1] \div 4), B64Char((d[1] % 4) * 16 + d[2] \div 16),
           B64Char((d[2] % 16) * 4 + d[3] \div 64), B64Char(d[3] % 64)>>
            \o Base64(SubSeq(d, 4, Len(d)))

\* json.Marshal: null for nil, {"cols":C,"rows":R} for a Resize, {"count":N}
\* for a ViewerCount, a quoted base64 string for a []byte, an error for a channel
Marshal(v) ==
    IF v.kind = "nil" THEN [data |-> <<110, 117, 108, 108>>, ok |-> TRUE]
    ELSE IF v.kind = "Resize"
    THEN [data |-> <<123, 34, 99, 111, 108, 115, 34, 58>> \o Digits(v.cols)
                    \o <<44, 34, 114, 111, 119, 115, 34, 58>> \o Digits(v.rows) \o <<125>>,
          ok |-> TRUE]
    ELSE IF v.kind = "ViewerCount"
    THEN [data |-> <<123, 34, 99, 111, 117, 110, 116, 34, 58>> \o Digits(v.count) \o <<125>>,
          ok |-> TRUE]
    ELSE IF v.kind = "bytes"
    THEN [data |-> <<34>> \o Base64(v.data) \o <<34>>, ok |-> TRUE]
    ELSE [data |-> <<>>, ok |-> FALSE]

EncodeResult(msg, err) == [called |-> TRUE, msg |-> msg, err |-> err]
DecodeResult(tag, payload, err) == [called |-> TRUE, tag |-> tag, payload |-> payload, err |-> err]

\* Encode (part_011 14-37): [type_byte][payload]
Encode(msgType, payload) ==
    IF msgType \in {TypeStdout, TypeStdin}
    THEN IF payload.kind # "bytes"
         THEN EncodeResult(<<>>, "expected []byte")
         ELSE EncodeResult(<<msgType>> \o payload.data, "nil")
    ELSE IF msgType \in {TypePing, TypePong, TypeEnd}
    THEN EncodeResult(<<msgType>>, "nil")
    ELSE IF ~Marshal(payload).ok
         THEN EncodeResult(<<>>, "marshal payload")
         ELSE EncodeResult(<<msgType>> \o Marshal(payload).data, "nil")

\* Decode that returns the whole message as the payload
DecodeKeepsTypeByte(msg) ==
    IF Len(msg) = 0
    THEN DecodeResult(0, <<>>, "empty message")
    ELSE DecodeResult(msg[1], msg, "nil")

\* Decode (part_011 40-45): msg[0], msg[1:], or ErrEmptyMessage
Decode(msg) ==
    IF Len(msg) = 0
    THEN DecodeResult(0, <<>>, "empty message")
    ELSE DecodeResult(msg[1], SubSeq(msg, 2, Len(msg)), "nil")

\* either Encode is about to be called with a tag and a payload, or a message
\* of any bytes has been read off a connection; the relay itself is idle
InitCodec ==
    /\ hub = {}
    /\ sessions = [s \in SessionIDs |-> NoSession]
    /\ nextSid = 1
    /\ nextTok = 1
    /\ now = 0
    /\ pc = [c \in Producers |-> "idle"]
    /\ hello = [c \in Producers |-> NoHello]
    /\ psid = [c \in Producers |-> Empty]
    /\ snap = [c \in Producers |-> {}]
    /\ deadline = [c \in Producers |-> 0]
    /\ plog = [c \in Producers |-> <<>>]
    /\ popen = [c \in Producers |-> FALSE]
    /\ stdoutSent = 0
    /\ vpc = [v \in Viewers |-> "idle"]
    /\ vsid = [v \in Viewers |-> Empty]
    /\ vcnt = [v \in Viewers |-> 0]
    /\ vlog = [v \in Viewers |-> <<>>]
    /\ vopen = [v \in Viewers |-> FALSE]
    /\ ret = "none"
    /\ StreamIdle
    /\ AuthIdle
    /\ InputIdle
    /\ \/ /\ cin \in [tag : Tags, payload : Payloads]
          /\ cmsg = NoCall
       \/ /\ cin = NoInput
          /\ cmsg \in {EncodeResult(m, "nil") : m \in ByteSeqs}
    /\ cout = NoCall
    /\ LockIdle
    /\ FwdIdle
    /\ CLIIdle

EncodeCall ==
    /\ cin # NoInput
    /\ cmsg = NoCall
    /\ cmsg' = Encode(cin.tag, cin.payload)
    /\ UNCHANGED <<hubVars, now, prodVars, viewVars, ret, streamVars, authVars, inputVars,
                   cin, cout, lockVars, fwdVars, cliVars>>

DecodeCall ==
    /\ cmsg # NoCall
    /\ cmsg.err = "nil"
    /\ cout = NoCall
    /\ cout' = Decode(cmsg.msg)
    /\ UNCHANGED <<hubVars, now, prodVars, viewVars, ret, streamVars, authVars, inputVars,
                   cin, cmsg, lockVars, fwdVars, cliVars>>

NextCodec == EncodeCall \/ DecodeCall

SpecCodec == InitCodec /\ [][NextCodec]_vars

(* ------------------- viewer input through the codec -------------------- *)
\* frames a viewer sends: Stdin with raw bytes, Resize with {cols, rows}, Pong
ViewerFrames ==
    [tag : {TypeStdin}, payload : {Bytes(d) : d \in ByteSeqs}]
        \cup [tag : {TypeResize}, payload : {ResizeValue(c, r) : c \in {0, 80, 132}, r \in {24, 50}}]
        \cup [tag : {TypePong}, payload : {Nil}]

TagKind(tag) ==
    IF tag = TypeStdin THEN "Stdin" ELSE IF tag = TypeResize THEN "Resize" ELSE "Pong"

\* session 1 runs in any mode with its producer connected; a viewer is about
\* to send one frame
InitForward ==
    /\ hub = {1}
    /\ sessions = [s \in SessionIDs |->
            IF s = 1
            THEN [NewSession(1, "google", "u1", 1, 1) EXCEPT !.viewers = {1}]
            ELSE NoSession]
    /\ nextSid = 2
    /\ nextTok = 2
    /\ now = 0
    /\ pc = [c \in Producers |-> IF c = 1 THEN "loop" ELSE "idle"]
    /\ hello = [c \in Producers |-> NoHello]
    /\ psid = [c \in Producers |-> IF c = 1 THEN 1 ELSE Empty]
    /\ snap = [c \in Producers |-> {}]
    /\ deadline = [c \in Producers |-> 0]
    /\ plog = [c \in Producers |-> IF c = 1 THEN <<WelcomeFrame(1, 1)>> ELSE <<>>]
    /\ popen = [c \in Producers |-> c = 1]
    /\ stdoutSent = 0
    /\ vpc = [v \in Viewers |-> IF v = 1 THEN "loop" ELSE "idle"]
    /\ vsid = [v \in Viewers |-> IF v = 1 THEN 1 ELSE Empty]
    /\ vcnt = [v \in Viewers |-> 0]
    /\ vlog = [v \in Viewers |-> IF v = 1 THEN <<JoinedFrame>> ELSE <<>>]
    /\ vopen = [v \in Viewers |-> v = 1]
    /\ ret = "none"
    /\ StreamIdle
    /\ AuthIdle
    /\ \E m \in Modes : mode = [s \in SessionIDs |-> IF s = 1 THEN m ELSE ""]
    /\ vsend = [v \in Viewers |-> NoSend]
    /\ cin \in ViewerFrames
    /\ cmsg = NoCall
    /\ cout = NoCall
    /\ LockIdle
    /\ FwdIdle
    /\ CLIIdle

\* the viewer handler's switch on the decoded type, and SendToCLI's Encode of
\* the payload bytes Decode returned (part_018 335-348, part_020 156-161)
RelayForward ==
    /\ cout # NoCall
    /\ cout.err = "nil"
    /\ fmsg = NoCall
    /\ Forwards(TagKind(cout.tag), mode[1])
    /\ SendToCLI(sessions[1]) # {}
    /\ fmsg' = Encode(cout.tag, Bytes(cout.payload))
    /\ UNCHANGED <<hubVars, now, prodVars, viewVars, ret, streamVars, authVars, inputVars,
                   codecVars, lockVars, fout, cliVars>>

\* the producer decodes the message it read (cli/config.go 117-123)
ProducerDecode ==
    /\ fmsg # NoCall
    /\ fmsg.err = "nil"
    /\ fout = NoCall
    /\ fout' = Decode(fmsg.msg)
    /\ UNCHANGED <<hubVars, now, prodVars, viewVars, ret, streamVars, authVars, inputVars,
                   codecVars, lockVars, fmsg, cliVars>>

NextForward == EncodeCall \/ DecodeCall \/ RelayForward \/ ProducerDecode

SpecForward == InitForward /\ [][NextForward]_vars

(* ---------------------- the CLI's reconnect loop ----------------------- *)
\* connection losses (drops and relay outages) in a run
MaxLosses == 2
\* the last index of backoffSchedule (cli/app.go 30-37)
LastBackoff == 5
\* the identity the CLI's token verifies to
CLIOwner == [provider |-> "google", sub |-> "u1"]

\* the Hello runConnection sends: the stored session id and reconnect token
\* (cli/app.go 112-120)
CLIHelloOf(c) ==
    [kind |-> "hello", id |-> CLIOwner, SessionID |-> c.sessionID,
     ReconnectToken |-> c.reconnectToken]

\* the Error code the producer handler answers a Hello with, "" when it
\* answers Welcome (part_017 57-76)
HelloError(h, ss, in) ==
    IF ~IsReconnect(in) THEN ""
    ELSE IF LookupError(h, ss, in) # "" THEN LookupError(h, ss, in)
    ELSE IF TokenMismatch(ss[in.SessionID], in) THEN "invalid_token"
    ELSE IF ~ReconnectAccepts(h, ss, in.SessionID) THEN "reconnect_failed"
    ELSE ""

\* the wrapped process has started and App.Run enters its loop; the relay is up
InitCLI ==
    /\ hub = {}
    /\ sessions = [s \in SessionIDs |-> NoSession]
    /\ nextSid = 1
    /\ nextTok = 1
    /\ now = 0
    /\ pc = [c \in Producers |-> "idle"]
    /\ hello = [c \in Producers |-> NoHello]
    /\ psid = [c \in Producers |-> Empty]
    /\ snap = [c \in Producers |-> {}]
    /\ deadline = [c \in Producers |-> 0]
    /\ plog = [c \in Producers |-> <<>>]
    /\ popen = [c \in Producers |-> FALSE]
    /\ stdoutSent = 0
    /\ vpc = [v \in Viewers |-> "idle"]
    /\ vsid = [v \in Viewers |-> Empty]
    /\ vcnt = [v \in Viewers |-> 0]
    /\ vlog = [v \in Viewers |-> <<>>]
    /\ vopen = [v \in Viewers |-> FALSE]
    /\ ret = "none"
    /\ StreamIdle
    /\ AuthIdle
    /\ InputIdle
    /\ CodecIdle
    /\ LockIdle
    /\ FwdIdle
    /\ cli = [state |-> "start", sessionID |-> Empty, reconnectToken |-> Empty, attempt |-> 0]
    /\ net = [up |-> TRUE, losses |-> 0]

RelayUnchanged ==
    UNCHANGED <<prodVars, viewVars, ret, streamVars, authVars, inputVars, codecVars,
                lockVars, fwdVars>>

\* App.Run after runConnection returned an error: the next backoff delay is
\* picked and the loop sleeps (cli/app.go 78-90); the stored session id and
\* token are kept. Only min(attempt, len(backoffSchedule)-1) is used.
Backoff(c) ==
    [c EXCEPT !.state = "backoff",
              !.attempt = IF @ < LastBackoff THEN @ + 1 ELSE @]

\* runConnection: connect, Hello, and the relay's answer (cli/app.go 95-144,
\* part_017 57-102). A failed dial or an Error answer returns an error to
\* App.Run's loop.
CLIConnect ==
    /\ cli.state \in {"start", "retry"}
    /\ IF ~net.up \/ HelloError(hub, sessions, CLIHelloOf(cli)) # ""
       THEN /\ cli' = Backoff(cli)
            /\ UNCHANGED hubVars
       ELSE IF IsReconnect(CLIHelloOf(cli))
       THEN /\ nextTok <= NumProducers
            /\ sessions' = [sessions EXCEPT ![cli.sessionID] =
                    RotateReconnectToken(ReplaceCLI(@, 1), nextTok)]
            /\ nextTok' = nextTok + 1
            /\ cli' = [cli EXCEPT !.state = "connected", !.reconnectToken = nextTok]
            /\ UNCHANGED <<hub, nextSid>>
       ELSE /\ nextSid <= NumProducers
            /\ nextTok <= NumProducers
            /\ sessions' = [sessions EXCEPT ![nextSid] =
                    NewSession(nextSid, CLIOwner.provider, CLIOwner.sub, 1, nextTok)]
            /\ hub' = hub \cup {nextSid}
            /\ nextSid' = nextSid + 1
            /\ nextTok' = nextTok + 1
            /\ cli' = [cli EXCEPT !.state = "connected", !.sessionID = nextSid,
                                  !.reconnectToken = nextTok]
    /\ UNCHANGED <<now, net>>
    /\ RelayUnchanged

\* the backoff delay has passed and the loop calls runConnection again
\* (cli/app.go 85-89, 67-68)
BackoffElapsed ==
    /\ cli.state = "backoff"
    /\ cli' = [cli EXCEPT !.state = "retry"]
    /\ UNCHANGED <<hubVars, now, net>>
    /\ RelayUnchanged

\* the connection is lost while the relay stays reachable; runConnection
\* returns "connection lost" (cli/app.go 214-224)
ConnLost ==
    /\ cli.state = "connected"
    /\ net.up
    /\ net.losses < MaxLosses
    /\ net' = [net EXCEPT !.losses = @ + 1]
    /\ cli' = Backoff(cli)
    /\ UNCHANGED <<hubVars, now>>
    /\ RelayUnchanged

\* the relay becomes unreachable for the CLI; an open connection is lost
NetDown ==
    /\ net.up
    /\ cli.state \in {"connected", "retry", "backoff"}
    /\ net.losses < MaxLosses
    /\ net' = [up |-> FALSE, losses |-> net.losses + 1]
    /\ cli' = IF cli.state = "connected" THEN Backoff(cli) ELSE cli
    /\ UNCHANGED <<hubVars, now>>
    /\ RelayUnchanged

\* the relay is reachable again
NetUp ==
    /\ ~net.up
    /\ net' = [net EXCEPT !.up = TRUE]
    /\ UNCHANGED <<hubVars, now, cli>>
    /\ RelayUnchanged

\* the producer handler's read fails; deferred Hub.Disconnect (part_017 104, hub.go 71-80)
RelayDisconnect(s) ==
    /\ cli.state # "connected"
    /\ Get(hub, s)
    /\ ~IsDisconnected(sessions[s])
    /\ sessions' = [sessions EXCEPT ![s] = MarkDisconnected(@, now)]
    /\ UNCHANGED <<hub, nextSid, nextTok, now, cli, net>>
    /\ RelayUnchanged

\* the reaper after its sleep: IsDisconnected, Unregister, Close (hub.go 82-88)
RelayReap(s) ==
    /\ Get(hub, s)
    /\ IsDisconnected(sessions[s])
    /\ now >= sessions[s].disconnectedAt + GracePeriod
    /\ hub' = hub \ {s}
    /\ sessions' = [sessions EXCEPT ![s] = Close(@)]
    /\ UNCHANGED <<nextSid, nextTok, now, cli, net>>
    /\ RelayUnchanged

\* a grace period passes. While the relay is reachable the CLI retries within
\* 30 s at most (backoffSchedule), so it passes only during an outage.
OutageLasts ==
    /\ ~net.up
    /\ now < MaxLosses * GracePeriod
    /\ now' = now + GracePeriod
    /\ UNCHANGED <<hubVars, cli, net>>
    /\ RelayUnchanged

\* the wrapped process exits or the CLI is interrupted (cli/app.go 69-76)
ProcessExit ==
    /\ cli.state \in {"connected", "retry", "backoff"}
    /\ cli' = [cli EXCEPT !.state = "exited"]
    /\ UNCHANGED <<hubVars, now, net>>
    /\ RelayUnchanged

NextCLI ==
    \/ CLIConnect
    \/ BackoffElapsed
    \/ ConnLost
    \/ NetDown
    \/ NetUp
    \/ \E s \in SessionIDs : RelayDisconnect(s)
    \/ \E s \in SessionIDs : RelayReap(s)
    \/ OutageLasts
    \/ ProcessExit

SpecCLI == InitCLI /\ [][NextCLI]_vars

\* the relay becomes reachable again, the CLI's backoff timer fires and it
\* connects, and the relay's handler notices a lost connection
FairSpecCLI ==
    /\ SpecCLI
    /\ WF_vars(CLIConnect)
    /\ WF_vars(BackoffElapsed)
    /\ WF_vars(NetUp)
    /\ \A s \in SessionIDs : WF_vars(RelayDisconnect(s))

(* --------------------- Hub.mu and Session.mu (locking) ------------------ *)
\* One step of an operation: taking or releasing a mutex, a network write on a
\* viewer or producer connection, or a load or store of Session fields.
Step(k, m, f) == [k |-> k, m |-> m, f |-> f]
Lock(m) == <<Step("Lock", m, {})>>
Unlock(m) == <<Step("Unlock", m, {})>>
RLock(m) == <<Step("RLock", m, {})>>
RUnlock(m) == <<Step("RUnlock", m, {})>>
NetWrite(conn) == <<Step("Write", conn, {})>>
Load(f) == <<Step("Load", "session", f)>>
Store(f) == <<Step("Store", "session", f)>>

\* the mutable fields of a Session (part_020 19-36)
MutableFields == {"Cols", "Rows", "ReconnectToken", "cliConn", "cliDisconnected",
                  "disconnectedAt", "viewers", "closed"}

\* Session operations (part_020 66-185), on the path where the session is open
BroadcastSteps ==
    RLock("session") \o Load({"viewers"}) \o RUnlock("session") \o NetWrite("viewer")
SendToCLISteps ==
    RLock("session") \o Load({"cliDisconnected", "cliConn"}) \o RUnlock("session")
        \o NetWrite("producer")
IsDisconnectedSteps == RLock("session") \o Load({"cliDisconnected"}) \o RUnlock("session")
ViewerCountSteps == RLock("session") \o Load({"viewers"}) \o RUnlock("session")
MarkDisconnectedSteps ==
    Lock("session") \o Store({"cliDisconnected", "disconnectedAt"}) \o Unlock("session")
        \o BroadcastSteps
ReplaceCLISteps ==
    Lock("session") \o Store({"cliConn", "cliDisconnected", "disconnectedAt"})
        \o Unlock("session") \o BroadcastSteps
RotateSteps == Lock("session") \o Store({"ReconnectToken"}) \o Unlock("session")
AddViewerSteps ==
    Lock("session") \o Load({"closed", "viewers"}) \o Store({"viewers"}) \o Unlock("session")
RemoveViewerSteps == Lock("session") \o Store({"viewers"}) \o Unlock("session")
\* Close writes End to the viewers before its deferred Unlock (part_020 170-185)
CloseSteps ==
    Lock("session") \o Load({"closed"}) \o Store({"closed"}) \o NetWrite("viewer")
        \o Store({"viewers"}) \o Unlock("session")

\* Hub operations (hub.go 26-113), on the path where the session is found
RegisterSteps == Lock("hub") \o Unlock("hub")
UnregisterSteps == Lock("hub") \o Unlock("hub") \o CloseSteps
GetSteps == RLock("hub") \o RUnlock("hub")
ListForOwnerSteps == RLock("hub") \o RUnlock("hub")
DisconnectSteps == RLock("hub") \o RUnlock("hub") \o MarkDisconnectedSteps
\* a reaper that keeps IsDisconnected's read lock while it calls Unregister
ReaperStepsHoldingLock ==
    RLock("session") \o Load({"cliDisconnected"}) \o Lock("hub") \o Unlock("hub")
        \o RUnlock("session")
\* the goroutine Disconnect starts, after its sleep (hub.go 82-88)
ReaperSteps == IsDisconnectedSteps \o UnregisterSteps
ReconnectSteps == RLock("hub") \o RUnlock("hub") \o IsDisconnectedSteps \o ReplaceCLISteps
\* CloseAll calls Close on every session with Hub.mu held (hub.go 106-113)
CloseAllSteps == Lock("hub") \o CloseSteps \o Unlock("hub")

\* the handlers' own accesses of Session fields, between the operations they call:
\* the reconnect path of the producer handler (part_017 60-86)
CLIReconnectPathSteps ==
    GetSteps \o Load({"ReconnectToken"}) \o ReconnectSteps \o RotateSteps
        \o Load({"ReconnectToken"}) \o NetWrite("producer")
\* a Resize frame in the producer's read loop (part_017 121-127)
CLIResizeSteps == Store({"Cols", "Rows"}) \o BroadcastSteps
\* a viewer's join (part_018 303-323)
ViewerJoinSteps ==
    AddViewerSteps \o Load({"Cols", "Rows"}) \o NetWrite("viewer")
        \o ViewerCountSteps \o SendToCLISteps
\* the REST session listing (handler_api.go 25-36)
ListSessionsSteps == ListForOwnerSteps \o Load({"Cols", "Rows"}) \o ViewerCountSteps

HubOps == {"Register", "Unregister", "Get", "ListForOwner", "Disconnect", "Reaper",
           "Reconnect", "CloseAll"}
SessionOps == {"AddViewer", "RemoveViewer", "BroadcastToViewers", "SendToCLI",
               "MarkDisconnected", "ReplaceCLI", "Close"}
HandlerOps == {"CLIReconnectPath", "CLIResize", "ViewerJoin", "ListSessions"}

Program(op) ==
    CASE op = "Register" -> RegisterSteps
      [] op = "Unregister" -> UnregisterSteps
      [] op = "Get" -> GetSteps
      [] op = "ListForOwner" -> ListForOwnerSteps
      [] op = "Disconnect" -> DisconnectSteps
      [] op = "Reaper" -> ReaperSteps
      [] op = "Reconnect" -> ReconnectSteps
      [] op = "CloseAll" -> CloseAllSteps
      [] op = "AddViewer" -> AddViewerSteps
      [] op = "RemoveViewer" -> RemoveViewerSteps
      [] op = "BroadcastToViewers" -> BroadcastSteps
      [] op = "SendToCLI" -> SendToCLISteps
      [] op = "MarkDisconnected" -> MarkDisconnectedSteps
      [] op = "ReplaceCLI" -> ReplaceCLISteps
      [] op = "Close" -> CloseSteps
      [] op = "CLIReconnectPath" -> CLIReconnectPathSteps
      [] op = "CLIResize" -> CLIResizeSteps
      [] op = "ViewerJoin" -> ViewerJoinSteps
      [] op = "ListSessions" -> ListSessionsSteps
      [] OTHER -> <<>>

\* goroutine g is about to execute a step of kind k
At(g, k) ==
    /\ lop[g] # "idle"
    /\ lpos[g] <= Len(Program(lop[g]))
    /\ Program(lop[g])[lpos[g]].k = k
Cur(g) == Program(lop[g])[lpos[g]]
Held(g) == {m \in Mutexes : mu[m].w = g \/ g \in mu[m].r}
\* sync.RWMutex: a goroutine blocked in Lock keeps new readers out
WriterPending(m, g) == \E h \in Goroutines \ {g} : At(h, "Lock") /\ Cur(h).m = m
Advance(g) == lpos' = [lpos EXCEPT ![g] = @ + 1]
RelayIdle ==
    UNCHANGED <<hubVars, now, prodVars, viewVars, ret, streamVars, authVars, inputVars,
                codecVars, fwdVars, cliVars>>

OpStart(g, op) ==
    /\ lop[g] = "idle"
    /\ lop' = [lop EXCEPT ![g] = op]
    /\ lpos' = [lpos EXCEPT ![g] = 1]
    /\ UNCHANGED mu
    /\ RelayIdle

\* mu.Lock() returns
LockAcquire(g) ==
    /\ At(g, "Lock")
    /\ mu[Cur(g).m] = Unlocked
    /\ mu' = [mu EXCEPT ![Cur(g).m].w = g]
    /\ Advance(g)
    /\ UNCHANGED lop
    /\ RelayIdle

\* mu.RLock() returns
RLockAcquire(g) ==
    /\ At(g, "RLock")
    /\ mu[Cur(g).m].w = NoGoroutine
    /\ ~WriterPending(Cur(g).m, g)
    /\ mu' = [mu EXCEPT ![Cur(g).m].r = @ \cup {g}]
    /\ Advance(g)
    /\ UNCHANGED lop
    /\ RelayIdle

\* mu.Unlock()
LockRelease(g) ==
    /\ At(g, "Unlock")
    /\ mu' = [mu EXCEPT ![Cur(g).m].w = NoGoroutine]
    /\ Advance(g)
    /\ UNCHANGED lop
    /\ RelayIdle

\* mu.RUnlock()
RLockRelease(g) ==
    /\ At(g, "RUnlock")
    /\ mu' = [mu EXCEPT ![Cur(g).m].r = @ \ {g}]
    /\ Advance(g)
    /\ UNCHANGED lop
    /\ RelayIdle

\* conn.Write on a viewer or producer connection
NetworkWrite(g) ==
    /\ At(g, "Write")
    /\ Advance(g)
    /\ UNCHANGED <<lop, mu>>
    /\ RelayIdle

\* a load or a store of Session fields
FieldAccess(g) ==
    /\ ~At(g, "Write")
    /\ IF At(g, "Load") THEN TRUE ELSE At(g, "Store")
    /\ Advance(g)
    /\ UNCHANGED <<lop, mu>>
    /\ RelayIdle

OpReturn(g) ==
    /\ lop[g] # "idle"
    /\ lpos[g] > Len(Program(lop[g]))
    /\ lop' = [lop EXCEPT ![g] = "idle"]
    /\ lpos' = [lpos EXCEPT ![g] = 0]
    /\ UNCHANGED mu
    /\ RelayIdle

\* the relay's handlers are not modelled here: only the goroutines and the mutexes
InitLocks ==
    /\ hub = {}
    /\ sessions = [s \in SessionIDs |-> NoSession]
    /\ nextSid = 1
    /\ nextTok = 1
    /\ now = 0
    /\ pc = [c \in Producers |-> "idle"]
    /\ hello = [c \in Producers |-> NoHello]
    /\ psid = [c \in Producers |-> Empty]
    /\ snap = [c \in Producers |-> {}]
    /\ deadline = [c \in Producers |-> 0]
    /\ plog = [c \in Producers |-> <<>>]
    /\ popen = [c \in Producers |-> FALSE]
    /\ stdoutSent = 0
    /\ vpc = [v \in Viewers |-> "idle"]
    /\ vsid = [v \in Viewers |-> Empty]
    /\ vcnt = [v \in Viewers |-> 0]
    /\ vlog = [v \in Viewers |-> <<>>]
    /\ vopen = [v \in Viewers |-> FALSE]
    /\ ret = "none"
    /\ StreamIdle
    /\ AuthIdle
    /\ InputIdle
    /\ CodecIdle
    /\ LockIdle
    /\ FwdIdle
    /\ CLIIdle

GoroutineStep(g) ==
    \/ LockAcquire(g)
    \/ RLockAcquire(g)
    \/ LockRelease(g)
    \/ RLockRelease(g)
    \/ NetworkWrite(g)
    \/ FieldAccess(g)
    \/ OpReturn(g)

\* goroutines call the Hub and Session operations in any interleaving
NextLocks ==
    \E g \in Goroutines :
        \/ \E op \in HubOps \cup SessionOps : OpStart(g, op)
        \/ GoroutineStep(g)

SpecLocks == InitLocks /\ [][NextLocks]_vars

\* the handlers run concurrently
NextHandlers ==
    \E g \in Goroutines :
        \/ \E op \in HandlerOps : OpStart(g, op)
        \/ GoroutineStep(g)

SpecHandlers == InitLocks /\ [][NextHandlers]_vars

(* ------------------------------ properties ----------------------------- *)
\* C1: in every reachable state of a Session the viewer set holds at most
\* maxViewersPerSession (10) entries, whatever the interleaving of AddViewer,
\* RemoveViewer, BroadcastToViewers and Close; an AddViewer call made while the
\* set holds 10 entries returns false and leaves the set unchanged.
C1_ViewerCap ==
    /\ [](\A s \in SessionIDs : Cardinality(sessions[s].viewers) <= maxViewersPerSession)
    /\ [][\A id \in ViewerIDs :
            (SAddViewer(id) /\ Cardinality(sessions[1].viewers) = maxViewersPerSession)
                => (ret' = "false" /\ sessions'[1].viewers = sessions[1].viewers)]_vars

\* an AddViewer call on an open session with a full viewer set has returned false
C1_Witness ==
    /\ ret = "false"
    /\ ~sessions[1].closed
    /\ Cardinality(sessions[1].viewers) = maxViewersPerSession

\* C2: Hub.Disconnect on a registered session leaves it registered and marks it
\* disconnected; a registered, disconnected session is eventually reconnected or
\* unregistered and closed (so without a successful Reconnect it is reaped once
\* the grace period has elapsed); a session that left the Hub never returns, and
\* Hub.Reconnect on an absent session fails.
C2_GraceReaping ==
    /\ [][\A c \in Producers :
            /\ (CLIDrop(c) /\ Get(hub, psid[c]))
                    => /\ Get(hub', psid[c])
                       /\ sessions'[psid[c]].cliDisconnected
                       /\ ~sessions'[psid[c]].closed
            /\ CLIMarkWrite(c) => (hub' = hub /\ sessions' = sessions)]_vars
    /\ \A s \in SessionIDs :
            (Get(hub, s) /\ sessions[s].cliDisconnected)
                ~> ((~Get(hub, s) /\ sessions[s].closed) \/ ~sessions[s].cliDisconnected)
    /\ [][\A s \in SessionIDs :
            (sessions[s].ID # Empty /\ ~Get(hub, s)) => ~Get(hub', s)]_vars
    /\ [][\A c \in Producers :
            (CLIHubReconnect(c) /\ ~Get(hub, psid[c]))
                => /\ pc'[c] = "rejected"
                   /\ plog'[c] = Append(plog[c], ErrorFrame("reconnect_failed"))
                   /\ sessions' = sessions]_vars

\* a session was never reconnected after its Disconnect, the grace period has
\* elapsed, and it is unregistered and closed
C2_Witness ==
    \E s \in SessionIDs :
        /\ sessions[s].cliDisconnected
        /\ now >= sessions[s].disconnectedAt + GracePeriod
        /\ ~Get(hub, s)
        /\ sessions[s].closed
        /\ \A c \in Producers : psid[c] # s

\* tokens carried by the Welcome frames sent so far for session s
IssuedTokens(s) ==
    UNION {{plog[c][i].tok : i \in {j \in DOMAIN plog[c] :
                                        plog[c][j].t = "Welcome" /\ plog[c][j].sid = s}} :
           c \in Producers}

\* the greatest element of a non-empty set of integers
Latest(S) == CHOOSE x \in S : \A y \in S : y <= x

\* C3: once the producer that a Disconnect dropped has been replaced by a
\* successful reconnect before the grace period elapsed, the reaper scheduled by
\* that Disconnect does nothing: a reaper goes on to unregister only while the
\* producer channel its own Disconnect dropped is still the session's.
C3_ReaperSparesReconnected ==
    [][\A c \in Producers :
        (ReaperCheck(c) /\ sessions[psid[c]].cliConn # c) => pc'[c] = "done"]_vars

\* C4: the Welcome of a successful reconnect carries a non-empty token that no
\* earlier Welcome for that session carried, and a reconnect Hello of the owner
\* that presents an earlier issued token, not the latest, is answered
\* invalid_token.
C4_FreshToken ==
    /\ [][\A c \in Producers :
            CLIWelcome(c)
                => /\ plog'[c] = Append(plog[c], WelcomeFrame(psid[c], plog'[c][Len(plog'[c])].tok))
                   /\ plog'[c][Len(plog'[c])].tok # Empty
                   /\ plog'[c][Len(plog'[c])].tok \notin IssuedTokens(psid[c])]_vars
    /\ [][\A c \in Producers :
            (/\ CLITokenCheck(c)
             /\ hello[c].ReconnectToken \in IssuedTokens(psid[c])
             /\ hello[c].ReconnectToken # Latest(IssuedTokens(psid[c])))
                => /\ pc'[c] = "rejected"
                   /\ plog'[c] = Append(plog[c], ErrorFrame("invalid_token"))]_vars

\* producer connection c is answered with one Error frame and closed in this step
RejectedWith(c, code) ==
    /\ pc'[c] = "rejected"
    /\ plog'[c] = Append(plog[c], ErrorFrame(code))
    /\ ~popen'[c]

\* identity id is not the owner pair of session s
NotOwner(id, s) ==
    sessions[s].OwnerProvider # id.provider \/ sessions[s].OwnerSub # id.sub

\* the steps of Hub.Disconnect and of the reconnect path of producer connection c
ReconnectCycleStep(c) ==
    \/ CLIDrop(c)
    \/ CLIMarkWrite(c)
    \/ CLIHubReconnect(c)
    \/ CLIReplace(c)
    \/ CLIRotate(c)
    \/ CLIWelcome(c)

\* C5: a producer disconnect followed by a successful reconnect preserves the
\* session: no operation changes the id or the owner pair of a session, the steps
\* of MarkDisconnected, Hub.Reconnect, ReplaceCLI and RotateReconnectToken leave
\* every viewer set unchanged, and the Welcome of the reconnect path carries the
\* session id of the reconnect Hello.
C5_ReconnectPreserves ==
    /\ [][\A s \in SessionIDs :
            sessions[s].ID # Empty
                => /\ sessions[s].ID = s
                   /\ sessions'[s].ID = sessions[s].ID
                   /\ sessions'[s].OwnerProvider = sessions[s].OwnerProvider
                   /\ sessions'[s].OwnerSub = sessions[s].OwnerSub]_vars
    /\ [][\A c \in Producers :
            ReconnectCycleStep(c)
                => \A s \in SessionIDs : sessions'[s].viewers = sessions[s].viewers]_vars
    /\ [][\A c \in Producers :
            /\ \A in \in HelloFrames :
                (CLIHello(c, in) /\ pc'[c] = "tokchk") => psid'[c] = in.SessionID
            /\ (pc[c] \in {"tokchk", "reconnect", "replace", "rbcast", "welcome"}
                    /\ pc'[c] # "rejected") => psid'[c] = psid[c]
            /\ CLIWelcome(c)
                => /\ plog'[c] = Append(plog[c],
                            WelcomeFrame(psid[c], sessions[psid[c]].ReconnectToken))
                   /\ sessions'[psid[c]].ID = psid[c]]_vars

\* a viewer that joined before the producer's disconnect is still attached after
\* the reconnect by another connection has been welcomed
C5_Witness ==
    \E s \in SessionIDs, c \in Producers, v \in Viewers :
        /\ sessions[s].cliConn = c
        /\ pc[c] = "loop"
        /\ \E i \in DOMAIN plog[c] : plog[c][i].t = "Welcome" /\ plog[c][i].sid = s
        /\ \E d \in Producers \ {c} :
                \E i \in DOMAIN plog[d] : plog[d][i].t = "Welcome" /\ plog[d][i].sid = s
        /\ v \in sessions[s].viewers
        /\ \E i, j \in DOMAIN vlog[v] :
                /\ i < j
                /\ vlog[v][i] = ReconnectFrame("disconnected")
                /\ vlog[v][j] = ReconnectFrame("reconnected")

\* C6: Hub.Reconnect returns true only when the session is registered and marked
\* disconnected; otherwise the reconnect Hello (owner and token matched) is
\* answered reconnect_failed and no session changes; a session's producer channel
\* is replaced only by a connection whose Hub.Reconnect passed that test, so a
\* connection answered reconnect_failed is never a session's producer channel.
C6_ReconnectGuard ==
    /\ [][\A c \in Producers :
            CLIHubReconnect(c)
                => IF Get(hub, psid[c]) /\ sessions[psid[c]].cliDisconnected
                   THEN pc'[c] = "replace" /\ plog'[c] = plog[c]
                   ELSE RejectedWith(c, "reconnect_failed") /\ sessions' = sessions]_vars
    /\ [][\A s \in SessionIDs :
            (sessions[s].ID # Empty /\ sessions'[s].cliConn # sessions[s].cliConn)
                => \E c \in Producers :
                        /\ pc[c] = "replace"
                        /\ psid[c] = s
                        /\ sessions'[s].cliConn = c]_vars
    /\ [](\A c \in Producers :
            "reconnect_failed" \in Codes(plog[c])
                => \A s \in SessionIDs : sessions[s].cliConn # c)

\* the only session was never disconnected, its producer is in its read loop, and
\* another connection's reconnect Hello was answered reconnect_failed
C6_Witness ==
    \E c \in Producers :
        /\ plog[c] = <<ErrorFrame("reconnect_failed")>>
        /\ nextSid = 2
        /\ nextTok = 2
        /\ Get(hub, 1)
        /\ ~sessions[1].cliDisconnected
        /\ sessions[1].cliConn # c
        /\ \A d \in Producers \ {c} : pc[d] \in {"idle", "loop"}

\* viewer connection v is answered with one Error frame, its only frame, and closed
VRejectedWith(v, code) ==
    /\ vpc'[v] = "rejected"
    /\ vlog'[v] = <<ErrorFrame(code)>>
    /\ ~vopen'[v]

\* C7: a viewer Join for a registered session by an identity that differs from
\* the owner pair in either component is answered Error forbidden; that viewer is
\* never in a viewer set and receives no frame but the Error.
C7_NonOwnerForbidden ==
    /\ [][\A v \in Viewers : \A in \in JoinInputs :
            (/\ ViewerJoin(v, in)
             /\ in.kind = "join"
             /\ in.id \in Identities
             /\ Get(hub, in.SessionID)
             /\ NotOwner(in.id, in.SessionID))
                => VRejectedWith(v, "forbidden") /\ sessions' = sessions]_vars
    /\ [](\A v \in Viewers :
            "forbidden" \in Codes(vlog[v])
                => /\ vlog[v] = <<ErrorFrame("forbidden")>>
                   /\ vpc[v] = "rejected"
                   /\ \A s \in SessionIDs : v \notin sessions[s].viewers)
    /\ [][\A v \in Viewers :
            vpc[v] = "rejected" => (vpc'[v] = "rejected" /\ vlog'[v] = vlog[v])]_vars

\* a viewer was answered forbidden while the session it asked for has its
\* producer attached
C7_Witness ==
    \E v \in Viewers :
        /\ vlog[v] = <<ErrorFrame("forbidden")>>
        /\ nextSid = 2
        /\ Get(hub, 1)
        /\ ~sessions[1].cliDisconnected

\* C8: for an authenticated identity that does not own session X, the answer to
\* a viewer Join for X, and to a producer reconnect Hello for X, is the same
\* whether X is registered or not.
C8_NoExistenceOracle ==
    \A s \in SessionIDs : \A id \in Identities :
        (Get(hub, s) /\ NotOwner(id, s))
            => /\ JoinError(hub, sessions, [kind |-> "join", id |-> id, SessionID |-> s])
                    = JoinError(hub \ {s}, sessions,
                                [kind |-> "join", id |-> id, SessionID |-> s])
               /\ \A tok \in {BogusToken} \cup 1..(nextTok - 1) :
                    LookupError(hub, sessions, [kind |-> "hello", id |-> id,
                                    SessionID |-> s, ReconnectToken |-> tok])
                        = LookupError(hub \ {s}, sessions, [kind |-> "hello", id |-> id,
                                    SessionID |-> s, ReconnectToken |-> tok])

\* C8 (as the code has it): a non-owner learns whether X is registered and no
\* more. A viewer Join for X by an identity that does not own X is answered with
\* the single frame Error session_not_found when X is not registered and Error
\* forbidden when it is; a producer reconnect Hello for X with Error
\* session_not_found when X is not registered and Error auth_failed when it is.
\* In each case the connection is closed and no session state changes.
C8_ExistenceRevealed ==
    /\ [][\A v \in Viewers : \A in \in JoinInputs :
            (/\ ViewerJoin(v, in)
             /\ in.kind = "join"
             /\ in.id \in Identities
             /\ NotOwner(in.id, in.SessionID))
                => /\ VRejectedWith(v, IF Get(hub, in.SessionID)
                                        THEN "forbidden" ELSE "session_not_found")
                   /\ UNCHANGED hubVars]_vars
    /\ [][\A c \in Producers : \A in \in HelloFrames :
            (/\ CLIHello(c, in)
             /\ in.kind = "hello"
             /\ in.id \in Identities
             /\ IsReconnect(in)
             /\ NotOwner(in.id, in.SessionID))
                => /\ RejectedWith(c, IF Get(hub, in.SessionID)
                                       THEN "auth_failed" ELSE "session_not_found")
                   /\ plog[c] = <<>>
                   /\ UNCHANGED hubVars]_vars

\* one viewer was answered forbidden and another session_not_found
C8_Witness ==
    \E v, w \in Viewers :
        /\ vlog[v] = <<ErrorFrame("forbidden")>>
        /\ vlog[w] = <<ErrorFrame("session_not_found")>>

\* C9: the reconnect path tests, in this order, that the session is registered,
\* that the owner pair matches, that the reconnect token matches and that the
\* session is disconnected, and answers the first test that fails with
\* session_not_found, auth_failed, invalid_token or reconnect_failed; a test that
\* passes sends nothing; a connection answered with an Error has received nothing
\* else, is closed, never becomes a producer channel and is never sent a Welcome.
C9_ReconnectCheckOrder ==
    /\ [][\A c \in Producers : \A in \in HelloFrames :
            (/\ CLIHello(c, in)
             /\ in.kind = "hello"
             /\ in.id \in Identities
             /\ IsReconnect(in))
                => IF ~Get(hub, in.SessionID)
                   THEN RejectedWith(c, "session_not_found") /\ UNCHANGED hubVars
                   ELSE IF NotOwner(in.id, in.SessionID)
                   THEN RejectedWith(c, "auth_failed") /\ UNCHANGED hubVars
                   ELSE pc'[c] = "tokchk" /\ plog'[c] = plog[c]]_vars
    /\ [][\A c \in Producers :
            CLITokenCheck(c)
                => IF sessions[psid[c]].ReconnectToken # hello[c].ReconnectToken
                   THEN RejectedWith(c, "invalid_token") /\ UNCHANGED hubVars
                   ELSE pc'[c] = "reconnect" /\ plog'[c] = plog[c]]_vars
    /\ [][\A c \in Producers :
            CLIHubReconnect(c)
                => IF ~(Get(hub, psid[c]) /\ sessions[psid[c]].cliDisconnected)
                   THEN RejectedWith(c, "reconnect_failed") /\ UNCHANGED hubVars
                   ELSE pc'[c] = "replace" /\ plog'[c] = plog[c]]_vars
    /\ [](\A c \in Producers :
            Codes(plog[c]) # {}
                => /\ Len(plog[c]) = 1
                   /\ pc[c] = "rejected"
                   /\ ~popen[c]
                   /\ \A s \in SessionIDs : sessions[s].cliConn # c)
    /\ [][\A c \in Producers :
            pc[c] = "rejected" => (pc'[c] = "rejected" /\ plog'[c] = plog[c])]_vars

\* one reconnect Hello was answered invalid_token and another reconnect_failed
C9_Witness ==
    \E c, d \in Producers :
        /\ plog[c] = <<ErrorFrame("invalid_token")>>
        /\ plog[d] = <<ErrorFrame("reconnect_failed")>>
        /\ ~popen[c]
        /\ ~popen[d]

\* C10: a Hello in which session_id or reconnect_token is non-empty is a reconnect
\* attempt and creates no session.
C10_EitherFieldReconnects ==
    [][\A c \in Producers : \A in \in HelloFrames :
        (/\ CLIHello(c, in)
         /\ in.kind = "hello"
         /\ in.id \in Identities
         /\ (in.SessionID # Empty \/ in.ReconnectToken # Empty))
            => /\ hub' = hub
               /\ nextSid' = nextSid
               /\ pc'[c] \in {"tokchk", "rejected"}]_vars

\* C10 (as the code has it): a Hello in which both session_id and reconnect_token
\* are non-empty is a reconnect attempt and creates no session; a Hello in which
\* either field is empty allocates a fresh session id and registers a new session
\* owned by the caller, whatever the other field holds; sessions are registered
\* by no other step.
C10_BothFieldsReconnect ==
    /\ [][\A c \in Producers : \A in \in HelloFrames :
            (/\ CLIHello(c, in)
             /\ in.kind = "hello"
             /\ in.id \in Identities)
                => IF in.SessionID # Empty /\ in.ReconnectToken # Empty
                   THEN /\ hub' = hub
                        /\ nextSid' = nextSid
                        /\ sessions' = sessions
                        /\ pc'[c] \in {"tokchk", "rejected"}
                   ELSE /\ ~Get(hub, nextSid)
                        /\ hub' = hub \cup {nextSid}
                        /\ nextSid' = nextSid + 1
                        /\ sessions'[nextSid].ID = nextSid
                        /\ sessions'[nextSid].OwnerProvider = in.id.provider
                        /\ sessions'[nextSid].OwnerSub = in.id.sub
                        /\ sessions'[nextSid].cliConn = c
                        /\ plog'[c] = <<WelcomeFrame(nextSid, sessions'[nextSid].ReconnectToken)>>
                        /\ pc'[c] = "loop"]_vars
    /\ [][hub' \subseteq hub
            \/ \E c \in Producers : \E in \in HelloFrames :
                /\ CLIHello(c, in)
                /\ (in.SessionID = Empty \/ in.ReconnectToken = Empty)]_vars

\* session 1 is registered and a Hello of its owner that names it without a
\* reconnect token is answered by registering a second session
C10_Witness ==
    /\ Get(hub, 1)
    /\ nextSid = 2
    /\ \E c \in Producers :
        ENABLED (/\ CLIHello(c, [kind |-> "hello", id |-> [provider |-> "google", sub |-> "u1"],
                                 SessionID |-> 1, ReconnectToken |-> Empty])
                 /\ hub' = {1, 2}
                 /\ plog'[c] = <<WelcomeFrame(2, 2)>>)

\* C11: closed is monotonic: once Close has run, closed stays true, the viewer
\* set stays empty (ViewerCount is 0), every AddViewer call returns false and
\* changes nothing, and a later BroadcastToViewers writes to no connection.
C11_ClosedMonotonic ==
    /\ [][SClose => (sessions'[1].closed /\ ViewerCount(sessions'[1]) = 0)]_vars
    /\ [][\A s \in SessionIDs : sessions[s].closed => sessions'[s].closed]_vars
    /\ [](\A s \in SessionIDs : sessions[s].closed => ViewerCount(sessions[s]) = 0)
    /\ [][\A id \in ViewerIDs :
            (SAddViewer(id) /\ sessions[1].closed)
                => (ret' = "false" /\ sessions' = sessions)]_vars
    /\ [][(SBroadcast /\ sessions[1].closed)
            => (vlog' = vlog /\ sessions' = sessions)]_vars

\* the session is closed, a viewer's last frame is End although every Stdout
\* broadcast has been made, and the last AddViewer call returned false
C11_Witness ==
    /\ sessions[1].closed
    /\ ret = "false"
    /\ stdoutSent = MaxStdout
    /\ \E v \in Viewers : vlog[v] = <<EndFrame>>

\* number of End frames written on a viewer connection
EndCount(log) == Cardinality({i \in DOMAIN log : log[i] = EndFrame})

\* C12: Close is idempotent: the first invocation sends one End frame to each
\* viewer attached at that moment, and every later invocation, sequential or
\* concurrent, changes no state and sends no frame, so no viewer ever gets a
\* second End.
C12_CloseIdempotent ==
    /\ [](\A v \in Viewers : EndCount(vlog[v]) <= 1)
    /\ [](Cardinality({k \in Closers : cpc[k] \in {"closing", "closed"}}) <= 1)
    /\ []((\E k \in Closers : cpc[k] = "closed") => (crem = {} /\ cur = 0))
    /\ [][\A k \in Closers :
            (CloseCall(k) /\ sessions[1].closed)
                => /\ cpc'[k] = "noop"
                   /\ crem' = crem
                   /\ <<sessions, vlog, vopen>>' = <<sessions, vlog, vopen>>]_vars
    /\ [][\A k \in Closers :
            (CloseCall(k) /\ ~sessions[1].closed)
                => (crem' = sessions[1].viewers /\ sessions'[1].closed)]_vars
    /\ [][\A k \in Closers : \A v \in Viewers :
            (CloseWriteEnd(k, v) /\ vopen[v])
                => vlog'[v] = Append(vlog[v], EndFrame)]_vars

C12_Witness ==
    /\ cpc[1] = "closed"
    /\ cpc[2] = "noop"
    /\ \A v \in Viewers : EndCount(vlog[v]) = 1
    /\ \E v \in Viewers : Len(vlog[v]) > 1

\* C13: End is the final frame a viewer receives: nothing is written on a viewer
\* connection after the End frame of Close, even when a broadcast runs
\* concurrently with Close.
C13_EndIsFinal ==
    \A v \in Viewers : \A i \in DOMAIN vlog[v] :
        vlog[v][i] = EndFrame => i = Len(vlog[v])

\* positions of the producer's n-th frame in a viewer's log
Copies(log, n) == {i \in DOMAIN log : log[i].t \in StreamKinds /\ log[i].n = n}

\* C19: a broadcast writes its frame, encoded once, exactly once to every viewer
\* of the snapshot it took of the viewer set; a failing write on one viewer
\* leaves the writes to the others pending and the viewer set unchanged.
C19_BroadcastOncePerViewer ==
    /\ [][\A c \in Producers : \A kind \in StreamKinds :
            (StreamRead(c, kind) /\ sessions[psid[c]].viewers # {})
                => /\ snap'[c] = sessions[psid[c]].viewers
                   /\ bframe'[c] = StreamFrame(kind, stdoutSent + 1)
                   /\ pc'[c] = "bwrite"]_vars
    /\ [][\A c \in Producers : \A v \in Viewers :
            StreamWrite(c, v)
                => /\ vlog'[v] = IF vopen[v] THEN Append(vlog[v], bframe[c]) ELSE vlog[v]
                   /\ \A w \in Viewers \ {v} : vlog'[w] = vlog[w]
                   /\ snap'[c] = snap[c] \ {v}
                   /\ snap'[c] # {} => (bframe'[c] = bframe[c] /\ pc'[c] = "bwrite")
                   /\ sessions' = sessions]_vars
    /\ [](\A c \in Producers : pc[c] = "bwrite" =>
            /\ snap[c] # {}
            /\ \A v \in snap[c] : Copies(vlog[v], bframe[c].n) = {})
    /\ [](\A v \in Viewers : \A n \in 1..MaxStdout : Cardinality(Copies(vlog[v], n)) <= 1)

C19_Witness ==
    /\ pc[1] = "loop"
    /\ stdoutSent = 2
    /\ \E v, w \in Viewers :
        /\ vlog[w] = <<StreamFrame("Stdout", 1), StreamFrame("Stdout", 2)>>
        /\ vlog[v] = <<StreamFrame("Stdout", 1)>>
        /\ ~vopen[v]
        /\ {v, w} \subseteq sessions[1].viewers

\* positions of the producer's stream frames in a viewer's log
StreamPositions(log) == {i \in DOMAIN log : log[i].t \in StreamKinds}

\* C20: on every viewer connection the Stdout and Resize frames appear in the
\* order in which the producer sent them, across broadcasts and across a
\* producer disconnect and reconnect.
C20_StreamOrder ==
    \A v \in Viewers : \A i, j \in StreamPositions(vlog[v]) :
        i < j => vlog[v][i].n < vlog[v][j].n

C20_Witness ==
    /\ sessions[1].cliConn = 2
    /\ pc[2] = "loop"
    /\ \E v \in Viewers : \E k1, k2 \in StreamKinds :
        vlog[v] = <<StreamFrame(k1, 1), ReconnectFrame("disconnected"),
                    ReconnectFrame("reconnected"), StreamFrame(k2, 2)>>

\* viewer handlers whose AddViewer call has returned
AttachDone == {v \in DOMAIN vpc : vpc[v] # "add"}
\* those that were sent Joined
AttachJoined == {v \in DOMAIN vlog : vlog[v] # <<>> /\ vlog[v][1] = JoinedFrame}
\* those that were answered Error session_full, their only frame, and closed
AttachFull ==
    {v \in DOMAIN vlog :
        vlog[v] = <<ErrorFrame("session_full")>> /\ vpc[v] = "rejected" /\ ~vopen[v]}
\* no viewer has left yet
NoneLeft == \A v \in DOMAIN vpc : vpc[v] \notin {"unotify", "usend", "left"}
MinOf(a, b) == IF a <= b THEN a ELSE b

\* C14: of k owner-authenticated viewers attaching concurrently to a fresh open
\* session, with none leaving, exactly min(k, 10) are accepted and sent Joined
\* and every other one is answered Error session_full; with viewers leaving as
\* well, ViewerCount stays within 0..10.
C14_ConcurrentAttach ==
    /\ AttachDone = AttachJoined \cup AttachFull
    /\ AttachJoined \cap AttachFull = {}
    /\ NoneLeft =>
        /\ Cardinality(AttachJoined) = MinOf(Cardinality(AttachDone), maxViewersPerSession)
        /\ sessions[1].viewers = AttachJoined
    /\ ViewerCount(sessions[1]) \in 0..maxViewersPerSession

C14_Witness ==
    /\ NoneLeft
    /\ AttachDone = ViewerIDs
    /\ Cardinality(AttachJoined) = maxViewersPerSession
    /\ Cardinality(AttachFull) = 1

\* the login with this id has been completed with an id token
Completed(id) == handed[id].IDToken # Empty

\* C15: for a login completed with an id token, the first Consume call returns
\* the token and every other Consume call returns present = false, so the token
\* is handed out exactly once.
C15_ConsumeExactlyOnce ==
    /\ [](\A id \in AuthIDs : handed[id].n <= 1)
    /\ [][\A id \in AuthIDs :
            (AuthConsume(id) /\ Completed(id))
                => IF handed[id].n = 0
                   THEN ret'.present /\ ret'.IDToken = handed[id].IDToken
                   ELSE ~ret'.present]_vars

\* C15 as the store keeps it: the token of a completed login is handed out at
\* most once. A Consume call that finds the completed entry in the store returns
\* its token and deletes the entry; every other Consume call returns present =
\* false and changes nothing; an entry that Get or the cleanup removed as expired
\* is never handed out.
C15_ConsumeAtMostOnce ==
    /\ [](\A id \in AuthIDs : handed[id].n <= 1)
    /\ [][\A id \in AuthIDs :
            (AuthConsume(id) /\ auth[id].state = "pending" /\ auth[id].IDToken # Empty)
                => /\ ret' = AuthResult("Consume", TRUE, NoAuthSession, handed[id].IDToken)
                   /\ auth'[id].state = "gone"
                   /\ handed[id].n = 0 /\ handed'[id].n = 1]_vars
    /\ [][\A id \in AuthIDs :
            (AuthConsume(id) /\ ~(auth[id].state = "pending" /\ auth[id].IDToken # Empty))
                => /\ ret' = AuthResult("Consume", FALSE, NoAuthSession, Empty)
                   /\ <<auth, handed>>' = <<auth, handed>>]_vars
    /\ [][\A id \in AuthIDs : auth[id].state = "gone" => auth'[id] = auth[id]]_vars

C15_Witness ==
    \E id \in AuthIDs :
        /\ handed[id].n = 1
        /\ ret = AuthResult("Consume", FALSE, NoAuthSession, Empty)
        /\ auth[id].state = "gone"
        /\ \E other \in AuthIDs : Completed(other) /\ handed[other].n = 0 /\ auth[other].state = "gone"

\* C16: Get never returns an entry older than the TTL: when now - CreatedAt > TTL
\* the entry is deleted and Get reports absent; an entry of age at most the TTL,
\* the boundary included, is returned unchanged and stays in the store.
C16_GetExpiry ==
    /\ [][\A id \in AuthIDs :
            (AuthGet(id) /\ auth[id].state = "pending" /\ now - auth[id].CreatedAt > AuthTTL)
                => /\ ret' = AuthResult("Get", FALSE, NoAuthSession, Empty)
                   /\ auth'[id].state = "gone"
                   /\ \A other \in AuthIDs \ {id} : auth'[other] = auth[other]]_vars
    /\ [][\A id \in AuthIDs :
            (AuthGet(id) /\ auth[id].state = "pending" /\ now - auth[id].CreatedAt <= AuthTTL)
                => /\ ret' = AuthResult("Get", TRUE, auth[id], Empty)
                   /\ auth' = auth]_vars
    /\ [][\A id \in AuthIDs :
            (AuthGet(id) /\ auth[id].state # "pending")
                => (~ret'.present /\ auth' = auth)]_vars
    /\ [](ret.op = "Get" /\ ret.present => now - ret.sess.CreatedAt <= AuthTTL)

C16_Witness ==
    /\ now = AuthMaxTime
    /\ ret = AuthResult("Get", TRUE, auth[2], Empty)
    /\ auth[2].state = "pending"
    /\ now - auth[2].CreatedAt = AuthTTL
    /\ auth[1].state = "gone"
    /\ handed[1].n = 0

\* the codes a producer and a viewer handshake are refused with
CLIRefusals ==
    {"invalid_message", "invalid_payload", "auth_failed", "session_not_found",
     "invalid_token", "reconnect_failed"}
ViewerRefusals ==
    {"invalid_message", "invalid_payload", "auth_failed", "session_not_found",
     "forbidden", "session_full"}

\* C17: a connection refused during its handshake receives one Error frame, its
\* only frame, and is closed; the refusal registers and unregisters no session,
\* schedules no Disconnect, leaves every session's viewer set, producer
\* connection, disconnected flag and reconnect token as they were, and writes on
\* no other connection. A refused connection's handler does nothing afterwards.
C17_RefusalChangesNothing ==
    /\ [][\A c \in Producers :
            (pc[c] # "rejected" /\ pc'[c] = "rejected")
                => /\ \E code \in CLIRefusals : plog'[c] = <<ErrorFrame(code)>>
                   /\ ~popen'[c]
                   /\ <<hub, sessions, deadline, vlog, vopen>>' = <<hub, sessions, deadline, vlog, vopen>>
                   /\ \A d \in Producers \ {c} : plog'[d] = plog[d] /\ pc'[d] = pc[d]]_vars
    /\ [][\A v \in Viewers :
            (vpc[v] # "rejected" /\ vpc'[v] = "rejected")
                => /\ \E code \in ViewerRefusals : vlog'[v] = <<ErrorFrame(code)>>
                   /\ ~vopen'[v]
                   /\ <<hub, sessions, deadline, plog, popen, pc>>' = <<hub, sessions, deadline, plog, popen, pc>>
                   /\ \A w \in Viewers \ {v} : vlog'[w] = vlog[w] /\ vpc'[w] = vpc[w]]_vars
    /\ [][\A c \in Producers :
            pc[c] = "rejected" => (pc'[c] = "rejected" /\ plog'[c] = plog[c] /\ ~popen'[c])]_vars
    /\ [](\A s \in SessionIDs : \A v \in Viewers :
            vpc[v] = "rejected" => v \notin sessions[s].viewers)

C17_Witness ==
    /\ \E v \in Viewers : vlog[v] = <<ErrorFrame("session_full")>> /\ vpc[v] = "rejected"
    /\ \E c \in Producers : plog[c] = <<ErrorFrame("session_not_found")>> /\ pc[c] = "rejected"

\* C18: whenever a producer's read loop ends after its Welcome, the session
\* becomes marked disconnected and stays registered in the Hub.
C18_DropAlwaysMarks ==
    [][\A c \in Producers :
        CLIDrop(c) => (Get(hub', psid[c]) /\ IsDisconnected(sessions'[psid[c]]))]_vars

\* C18 as the handler does it: when the read loop ends and the session is still
\* registered, Hub.Disconnect marks it disconnected at the current time, every
\* viewer attached then is sent Reconnect{disconnected}, and the session stays
\* registered with its viewers until the reaper runs; when the session is no
\* longer registered, Hub.Disconnect changes nothing and sends nothing.
C18_DropMarksRegistered ==
    /\ [][\A c \in Producers :
            (CLIDrop(c) /\ Get(hub, psid[c]))
                => /\ sessions'[psid[c]] = [sessions[psid[c]] EXCEPT
                            !.cliDisconnected = TRUE, !.disconnectedAt = now]
                   /\ hub' = hub
                   /\ snap'[c] = sessions[psid[c]].viewers
                   /\ pc'[c] = "dbcast"]_vars
    /\ [][\A c \in Producers :
            CLIMarkWrite(c)
                => /\ \A v \in Viewers :
                        vlog'[v] = IF v \in snap[c] /\ vopen[v]
                                   THEN Append(vlog[v], ReconnectFrame("disconnected"))
                                   ELSE vlog[v]
                   /\ <<hub, sessions>>' = <<hub, sessions>>
                   /\ deadline'[c] = now + GracePeriod]_vars
    /\ [][\A c \in Producers :
            (CLIDrop(c) /\ ~Get(hub, psid[c]))
                => /\ <<hub, sessions, vlog, deadline>>' = <<hub, sessions, vlog, deadline>>
                   /\ pc'[c] = "done"]_vars

C18_Witness ==
    \E c \in Producers : \E v \in Viewers :
        /\ pc[c] = "sleep"
        /\ Get(hub, psid[c])
        /\ IsDisconnected(sessions[psid[c]])
        /\ v \in sessions[psid[c]].viewers
        /\ vlog[v] # <<>>
        /\ vlog[v][Len(vlog[v])] = ReconnectFrame("disconnected")

\* viewer frames of a kind that reached, or are about to be written on, a producer connection
Delivered(kind) ==
    UNION {{plog[c][i] : i \in DOMAIN plog[c]} : c \in Producers} \cap
        {InputFrame(kind, p) : p \in InputPayloads}
Pending(kind) == {v \in Viewers : vsend[v].frame.t = kind}

\* C21: SendToCLI called while cliDisconnected is true returns the disconnected
\* error, writes on no producer connection and queues nothing; otherwise it
\* writes the encoded frame on the connection that is the session's cliConn.
C21_SendToCLI ==
    /\ [][\A v \in Viewers : \A kind \in InputKinds : \A p \in InputPayloads :
            (/\ ViewerInput(v, kind, p)
             /\ Forwards(kind, mode[vsid[v]])
             /\ IsDisconnected(sessions[vsid[v]]))
                => /\ ret' = "cli disconnected"
                   /\ <<plog, vsend>>' = <<plog, vsend>>]_vars
    /\ [][\A v \in Viewers : \A kind \in InputKinds : \A p \in InputPayloads :
            (/\ ViewerInput(v, kind, p)
             /\ Forwards(kind, mode[vsid[v]])
             /\ ~IsDisconnected(sessions[vsid[v]]))
                => /\ vsend'[v] = [targets |-> {sessions[vsid[v]].cliConn},
                                    frame |-> InputFrame(kind, p)]
                   /\ plog' = plog]_vars
    /\ [][\A v \in Viewers :
            ViewerInputWrite(v)
                => /\ \A c \in Producers :
                        plog'[c] = IF c \in vsend[v].targets /\ popen[c]
                                   THEN Append(plog[c], vsend[v].frame) ELSE plog[c]
                   /\ vsend'[v] = NoSend]_vars

C21_Witness ==
    /\ ret = "cli disconnected"
    /\ IsDisconnected(sessions[1])
    /\ plog[1] = <<WelcomeFrame(1, 1), InputFrame("Resize", 2)>>
    /\ vsend = [v \in Viewers |-> NoSend]

\* C22: in a session whose mode is not pty no viewer Stdin frame ever reaches a
\* producer connection; in pty mode with the producer connected a viewer Stdin
\* frame is written to the producer with its payload unchanged.
C22_StdinByMode ==
    /\ [](mode[1] # "pty" => (Delivered("Stdin") = {} /\ Pending("Stdin") = {}))
    /\ [][\A v \in Viewers : \A p \in InputPayloads :
            (/\ ViewerInput(v, "Stdin", p)
             /\ mode[vsid[v]] = "pty"
             /\ ~IsDisconnected(sessions[vsid[v]]))
                => vsend'[v] = [targets |-> {sessions[vsid[v]].cliConn},
                                frame |-> InputFrame("Stdin", p)]]_vars
    /\ [][\A v \in Viewers :
            (ViewerInputWrite(v) /\ vsend[v].frame.t = "Stdin")
                => \A c \in vsend[v].targets :
                        popen[c] => plog'[c] = Append(plog[c], vsend[v].frame)]_vars

C22_Witness ==
    /\ mode[1] = "pty"
    /\ sessions[1].cliConn = 2
    /\ plog[1] = <<WelcomeFrame(1, 1), InputFrame("Stdin", 1)>>
    /\ Len(plog[2]) = 2
    /\ plog[2][2] = InputFrame("Stdin", 2)

\* viewer handlers that are not running: never started, refused, or returned
Returned == {v \in Viewers : vpc[v] \in {"idle", "rejected", "left"}}

\* C23: when the handler of an attached viewer returns, its id is removed from
\* the session's viewer set and, if the producer is connected, a ViewerCount
\* frame is written to the producer; a viewer whose handler is returning or has
\* returned is in no viewer set, so once every handler has returned every
\* viewer set is empty.
C23_LeaveRemoves ==
    /\ [][\A v \in Viewers :
            ViewerLeave(v)
                => /\ v \notin sessions'[vsid[v]].viewers
                   /\ sessions'[vsid[v]].viewers = sessions[vsid[v]].viewers \ {v}
                   /\ vpc'[v] = "unotify"]_vars
    /\ [][\A v \in Viewers :
            (ViewerCountRead(v) /\ vpc[v] = "unotify")
                => (vcnt'[v] = Cardinality(sessions[vsid[v]].viewers) /\ vpc'[v] = "usend")]_vars
    /\ [][\A v \in Viewers :
            (ViewerCountSend(v) /\ vpc[v] = "usend")
                => /\ \A c \in Producers :
                        plog'[c] = IF /\ ~IsDisconnected(sessions[vsid[v]])
                                      /\ c = sessions[vsid[v]].cliConn
                                      /\ popen[c]
                                   THEN Append(plog[c], ViewerCountFrame(vcnt[v]))
                                   ELSE plog[c]
                   /\ vpc'[v] = "left"]_vars
    /\ [](\A v \in Viewers : \A s \in SessionIDs :
            vpc[v] \in {"unotify", "usend", "left"} => v \notin sessions[s].viewers)
    /\ [](Returned = Viewers => \A s \in SessionIDs : sessions[s].viewers = {})

C23_Witness ==
    /\ \A v \in Viewers : vpc[v] = "left"
    /\ hub = {1}
    /\ ~IsDisconnected(sessions[1])
    /\ sessions[1].viewers = {}
    /\ plog[sessions[1].cliConn][Len(plog[sessions[1].cliConn])] = ViewerCountFrame(0)

\* C24: CloseAll closes every registered session, ending its viewers, and leaves
\* the registry empty; a reaper that wakes when its session is no longer
\* registered finds nothing to unregister, closes nothing and changes no state.
C24_CloseAllThenReaper ==
    /\ [][CloseAll
            => /\ hub' = {}
               /\ \A s \in hub :
                    /\ sessions'[s] = [sessions[s] EXCEPT !.closed = TRUE, !.viewers = {}]
                    /\ \A v \in sessions[s].viewers :
                        /\ ~vopen'[v]
                        /\ vopen[v] => vlog'[v] = Append(vlog[v], EndFrame)
               /\ \A s \in SessionIDs \ hub : sessions'[s] = sessions[s]]_vars
    /\ [][\A c \in Producers :
            ((ReaperCheck(c) \/ ReaperUnregister(c)) /\ ~Get(hub, psid[c]))
                => /\ <<hubVars, plog, popen, viewVars>>' = <<hubVars, plog, popen, viewVars>>
                   /\ pc'[c] \in {"unreg", "done"}]_vars
    /\ [][\A c \in Producers :
            (ReaperUnregister(c) /\ ~Get(hub, psid[c])) => pc'[c] = "done"]_vars
    /\ [](\A c \in Producers : pc[c] = "close" => ~sessions[psid[c]].closed)

C24_Witness ==
    /\ pc[1] = "unreg"
    /\ \A c \in Producers \ {1} : pc[c] = "idle"
    /\ hub = {}
    /\ sessions[psid[1]].closed
    /\ \E v \in Viewers : vlog[v] # <<>> /\ vlog[v][Len(vlog[v])] = EndFrame

\* C25: GET /api/sessions by an authenticated caller lists exactly the
\* registered sessions whose owner provider and owner subject both equal the
\* caller's; sessions in their grace period are listed, sessions of the same
\* subject under another provider and unregistered sessions are not.
C25_ListForOwner ==
    [][\A id \in Identities :
        HandleListSessions(id)
            => /\ ret'.status = "ok"
               /\ \A s \in SessionIDs :
                    s \in ret'.list <=>
                        /\ Get(hub, s)
                        /\ sessions[s].OwnerProvider = id.provider
                        /\ sessions[s].OwnerSub = id.sub]_vars

C25_Witness ==
    /\ ret.status = "ok"
    /\ \E s1, s2, s3 \in SessionIDs :
        /\ ret.list = {s1}
        /\ Get(hub, s1) /\ IsDisconnected(sessions[s1])
        /\ Get(hub, s2)
        /\ sessions[s2].OwnerSub = sessions[s1].OwnerSub
        /\ sessions[s2].OwnerProvider # sessions[s1].OwnerProvider
        /\ ~Get(hub, s3)
        /\ sessions[s3].OwnerSub = sessions[s1].OwnerSub
        /\ sessions[s3].OwnerProvider = sessions[s1].OwnerProvider

\* C26: Consume on an entry whose id token is still empty returns present =
\* false and leaves the entry as it is, so that Complete can still store the
\* token and a Consume after it returns that token; Complete and Consume on an
\* id that is not in the store change nothing in the store.
C26_PendingUntouched ==
    /\ [][\A id \in AuthIDs :
            (AuthConsume(id) /\ auth[id].state = "pending" /\ auth[id].IDToken = Empty)
                => /\ ret' = AuthResult("Consume", FALSE, NoAuthSession, Empty)
                   /\ auth' = auth]_vars
    /\ [][\A id \in AuthIDs : \A token \in AuthTokens :
            (AuthComplete(id, token) /\ auth[id].state = "pending")
                => auth' = [auth EXCEPT ![id].IDToken = token]]_vars
    /\ [][\A id \in AuthIDs :
            (AuthConsume(id) /\ auth[id].state = "pending" /\ auth[id].IDToken # Empty)
                => ret' = AuthResult("Consume", TRUE, NoAuthSession, auth[id].IDToken)]_vars
    /\ [][\A id \in AuthIDs : \A token \in AuthTokens :
            (AuthComplete(id, token) /\ auth[id].state # "pending") => auth' = auth]_vars
    /\ [][\A id \in AuthIDs :
            (AuthConsume(id) /\ auth[id].state # "pending")
                => (~ret'.present /\ auth' = auth)]_vars

C26_Witness ==
    /\ auth[1].state = "pending"
    /\ auth[1].IDToken = Empty
    /\ ret = AuthResult("Consume", FALSE, NoAuthSession, Empty)
    /\ auth[2].state = "unused"
    /\ handed[2].IDToken = Empty

\* what Decode must return for the message Encode built from (tag, payload)
ValidFor(tag, payload) ==
    IF tag \in RawTags THEN payload.kind = "bytes"
    ELSE IF tag \in EmptyTags THEN TRUE
    ELSE payload.kind # "chan"

ExpectedPayload(tag, payload) ==
    IF tag \in RawTags THEN payload.data
    ELSE IF tag \in EmptyTags THEN <<>>
    ELSE Marshal(payload).data

\* C27: for every defined tag and every payload valid for it, Encode succeeds
\* and Decode of its result returns the same tag with a payload that is
\* byte-equal for Stdout and Stdin, empty for Ping, Pong and End, and the JSON
\* encoding of the payload for the JSON tags; Decode of the empty byte
\* sequence returns an error, and Decode of a single byte t returns (t, empty).
C27_RoundTrip ==
    /\ (cin # NoInput /\ cmsg # NoCall /\ ValidFor(cin.tag, cin.payload)) => cmsg.err = "nil"
    /\ (cin # NoInput /\ cout # NoCall)
        => cout = DecodeResult(cin.tag, ExpectedPayload(cin.tag, cin.payload), "nil")
    /\ (cout # NoCall /\ Len(cmsg.msg) = 0) => cout.err = "empty message"
    /\ (cout # NoCall /\ Len(cmsg.msg) = 1) => cout = DecodeResult(cmsg.msg[1], <<>>, "nil")

C27_Witness ==
    /\ cin = [tag |-> TypeResize, payload |-> ResizeValue(80, 24)]
    /\ cout # NoCall
    /\ cout.tag = TypeResize
    /\ Len(cout.payload) = 21


\* C28: a grace-period reaper goes on to unregister a session only if the
\* session has been continuously disconnected for at least the grace period:
\* after disconnect, reconnect, disconnect, the grace period counts from the
\* second disconnect, and the first Disconnect's reaper does not remove the
\* session earlier.
C28_FullGraceBeforeUnregister ==
    [][\A c \in Producers :
        (ReaperCheck(c) /\ pc'[c] = "unreg")
            => now - sessions[psid[c]].disconnectedAt >= GracePeriod]_vars


\* producer connections that were answered Welcome for session s and whose
\* handlers are in their read loop
Attached(s) ==
    {c \in Producers : /\ pc[c] = "loop"
                       /\ psid[c] = s
                       /\ popen[c]
                       /\ \E i \in DOMAIN plog[c] : plog[c][i].t = "Welcome"}

\* C29: at any time at most one producer connection is attached to a session;
\* of two connections that concurrently send a reconnect Hello with the same
\* valid session id and reconnect token, at most one receives Welcome.
C29_SingleProducer == \A s \in SessionIDs : Cardinality(Attached(s)) <= 1


\* positions of the Reconnect frames in a viewer's log
ReconnectPositions(log) == {i \in DOMAIN log : log[i].t = "Reconnect"}

\* no BroadcastToViewers of a Reconnect frame is between its snapshot and its writes
BroadcastsComplete == \A c \in Producers : pc[c] \notin {"dbcast", "rbcast"}

\* C30: a viewer attached throughout a producer disconnect/reconnect cycle
\* receives Reconnect{disconnected} before the matching Reconnect{reconnected},
\* so once all broadcasts have completed the last Reconnect status the viewer
\* received agrees with the session's disconnected flag.
C30_LastStatusAgrees ==
    \A v \in Viewers :
        (/\ BroadcastsComplete
         /\ vopen[v]
         /\ vsid[v] # Empty
         /\ ReconnectPositions(vlog[v]) # {}
         /\ v \in sessions[vsid[v]].viewers
         /\ ~sessions[vsid[v]].closed)
            => vlog[v][Latest(ReconnectPositions(vlog[v]))].code =
                    IF IsDisconnected(sessions[vsid[v]]) THEN "disconnected" ELSE "reconnected"


\* positions of the ViewerCount frames in a producer's log
CountPositions(log) == {i \in DOMAIN log : log[i].t = "ViewerCount"}

\* producer connection c created its session and is still its connected
\* producer, no other producer connection has done anything, and no viewer
\* handler is between its join and its read loop or inside its deferred leave
JoinsAndLeavesComplete(c) ==
    /\ pc[c] = "loop"
    /\ popen[c]
    /\ psid[c] # Empty
    /\ psid[c] \in hub
    /\ sessions[psid[c]].cliConn = c
    /\ ~IsDisconnected(sessions[psid[c]])
    /\ \A d \in Producers \ {c} : pc[d] = "idle"
    /\ \A v \in Viewers : vpc[v] \in {"idle", "rejected", "loop", "left"}

\* C31: once all viewer joins and leaves have completed while the producer
\* stays connected, the last ViewerCount frame the producer received carries
\* the actual size of the viewer set, for every interleaving of the viewer
\* handlers.
C31_LastCountIsActual ==
    \A c \in Producers :
        (JoinsAndLeavesComplete(c) /\ CountPositions(plog[c]) # {})
            => plog[c][Latest(CountPositions(plog[c]))].n = ViewerCount(sessions[psid[c]])


\* goroutine g cannot take its next step: it is in Lock or RLock and the mutex
\* is not available to it
Blocked(g) ==
    IF At(g, "Lock") THEN mu[Cur(g).m] # Unlocked
    ELSE IF At(g, "RLock")
    THEN IF mu[Cur(g).m].w # NoGoroutine THEN TRUE ELSE WriterPending(Cur(g).m, g)
    ELSE FALSE

\* g waits for h: h holds the mutex g is blocked on, or g is a reader kept out
\* by h's pending Lock
WaitsFor(g, h) ==
    /\ Blocked(g)
    /\ IF Cur(g).m \in Held(h) THEN TRUE
       ELSE /\ At(g, "RLock")
            /\ h # g
            /\ At(h, "Lock")
            /\ Cur(h).m = Cur(g).m

\* h is reached from g along the waits-for relation
WaitsTransitively(g, h) ==
    \/ WaitsFor(g, h)
    \/ \E i \in Goroutines : WaitsFor(g, i) /\ WaitsFor(i, h)
    \/ \E i, j \in Goroutines : WaitsFor(g, i) /\ WaitsFor(i, j) /\ WaitsFor(j, h)

\* C32: Hub operations and Session operations never deadlock: in every
\* interleaving of Register, Unregister, Get, ListForOwner, Disconnect and its
\* reaper, Reconnect and CloseAll with AddViewer, RemoveViewer,
\* BroadcastToViewers, SendToCLI, MarkDisconnected, ReplaceCLI and Close, no
\* goroutines wait cyclically on the Hub lock and the Session lock, and some
\* goroutine inside an operation can always take its next step.
C32_NoDeadlock ==
    /\ \A g \in Goroutines : ~WaitsTransitively(g, g)
    /\ (\E g \in Goroutines : lop[g] # "idle")
        => \E g \in Goroutines : lop[g] # "idle" /\ ~Blocked(g)

C32_Witness ==
    \E g, h \in Goroutines :
        /\ lop[g] = "CloseAll"
        /\ Held(g) = Mutexes
        /\ lop[h] = "Disconnect"
        /\ Blocked(h)
        /\ Cur(h).m = "session"


\* C33: no Hub or Session operation performs a network write on a viewer or
\* producer connection while it holds the Hub lock or a Session lock.
C33_NoWriteUnderLock ==
    [][\A g \in Goroutines : NetworkWrite(g) => Held(g) = {}]_vars

\* C34: every read and every write of mutable Session state by the producer
\* handler, the viewer handlers, the session listing and the Hub happens while
\* the session's mutex is held: a load with the mutex held for reading or
\* writing, a store with it held for writing.
C34_AccessUnderMutex ==
    [][\A g \in Goroutines :
        (FieldAccess(g) /\ Cur(g).f \cap MutableFields # {})
            => IF Cur(g).k = "Store" THEN mu["session"].w = g
               ELSE "session" \in Held(g)]_vars


\* C35: a Resize frame sent by a viewer is forwarded to the connected producer
\* as a Resize frame whose payload is the JSON object {cols, rows} equal to the
\* one the viewer sent, in pty and in pipe mode.
C35_ResizeForwarded ==
    /\ (cin.tag = TypeResize /\ cout # NoCall /\ fmsg # NoCall)
        => fmsg = EncodeResult(<<TypeResize>> \o Marshal(cin.payload).data, "nil")
    /\ (cin.tag = TypeResize /\ fout # NoCall)
        => fout = DecodeResult(TypeResize, Marshal(cin.payload).data, "nil")


\* C37: no id token is handed out for an expired pending login: Consume never
\* returns a token for an entry whose age exceeds the TTL, and Complete never
\* stores a token on such an entry, whether or not the sweeper has run yet.
C37_NoTokenAfterTTL ==
    /\ [][\A id \in AuthIDs :
            (AuthConsume(id) /\ auth[id].state = "pending" /\ Expired(auth[id], now))
                => ~ret'.present]_vars
    /\ [][\A id \in AuthIDs : \A token \in AuthTokens :
            (AuthComplete(id, token) /\ auth[id].state = "pending" /\ Expired(auth[id], now))
                => auth' = auth]_vars


\* C36: MarkDisconnected is idempotent: a second call on a session that is
\* already marked disconnected leaves the disconnected flag and disconnectedAt
\* as the first call set them and delivers no further frame to viewers.
C36_MarkIdempotent ==
    [][(SMarkDisconnected /\ IsDisconnected(sessions[1]))
        => (sessions' = sessions /\ vlog' = vlog)]_vars


\* Unregister has removed session s and its call of Close has not run yet
ClosePending(s) == \E c \in Producers : pc[c] = "close" /\ psid[c] = s

\* C38: a closed session is never registered: every session Hub.Get or
\* ListForOwner can return is not closed at the moment of the lookup, and
\* every session Unregister or CloseAll removed from the registry has Close
\* invoked on it, so that no removed session keeps viewers attached.
C38_ClosedNeverRegistered ==
    /\ [](\A s \in hub : ~sessions[s].closed)
    /\ [](\A s \in SessionIDs :
            (sessions[s] # NoSession /\ s \notin hub /\ ~ClosePending(s))
                => (sessions[s].closed /\ sessions[s].viewers = {}))
    /\ [][\A c \in Producers :
            (ReaperUnregister(c) /\ Get(hub, psid[c])) => pc'[c] = "close"]_vars
    /\ [][CloseAll => \A s \in hub : sessions'[s].closed /\ sessions'[s].viewers = {}]_vars

C38_Witness ==
    \E s \in SessionIDs : \E v \in Viewers :
        /\ s \notin hub
        /\ sessions[s].closed
        /\ vsid[v] = s
        /\ Len(vlog[v]) > 0
        /\ vlog[v][Len(vlog[v])] = EndFrame
        /\ \E c \in Producers : pc[c] = "done"


\* C39: after its relay connection drops, the CLI's reconnect loop eventually
\* reaches a connected state again (receives a Welcome) whenever the relay is
\* reachable and the wrapped process is alive, also when the relay has already
\* reaped the old session; the loop ends only when the process exits or the
\* CLI is interrupted.
C39_ReconnectsEventually ==
    (cli.state = "backoff") ~> (cli.state \in {"connected", "exited"})

====
